---- MODULE Spec2Model ----
(***************************************************************************)
(* Model of the rate cache of valutatrade_hub: the cache store             *)
(* (parser_service/storage.py), the refresh coordinator                    *)
(* (parser_service/updater.py), the two rate source clients                *)
(* (parser_service/api_clients.py), the rate lookup of the wallet use      *)
(* cases (core/usecases.py, infra/database.py, core/utils.py), the         *)
(* background scheduler (parser_service/scheduler.py) and the command loop *)
(* (cli/interface.py).                                                     *)
(*                                                                         *)
(* Representation                                                          *)
(*   - a Python str timestamp is a sequence of digits; None and "" are the *)
(*     empty sequence (the code only ever tests them with `not x` and      *)
(*     `x or ""`, which treat the two alike);                              *)
(*   - a float rate is the exact fraction [n, d]; 1.0 / r swaps n and d;   *)
(*   - a dict is a function whose DOMAIN is its key set;                   *)
(*   - the text of a file is a record tagged by `kind`.                    *)
(***************************************************************************)
EXTENDS Integers, Sequences, FiniteSets, TLC

VARIABLES
    files,      \* file name -> text of the file, or Missing
    now,        \* the wall clock, in seconds
    writes,     \* how rates.json has been written so far: set of write modes
    last,       \* the call that has just returned or raised, with its result
    pre,        \* text of rates.json when that call started
    pc,         \* per thread: its position (in RatesStorage.save, in
                \* RatesScheduler._loop, in run_cli)
    snap,       \* per thread: the snapshot the thread is saving
    handle,     \* per thread: where the inode of its open temp file lives
    seen,       \* what the concurrent reader has read last
    sched,      \* the fields of the RatesScheduler, if one was constructed
    app         \* the fields of the WalletApp: the session (_current_user_id)

vars == <<files, now, writes, last, pre, pc, snap, handle, seen, sched, app>>

----------------------------------------------------------------------------
(* Bounds *)

MaxTime == 2          \* the clock runs over 0..MaxTime
MaxIncoming == 2      \* most pairs in one direct upsert_pairs call
MaxHistory == 1       \* no refresh cycle starts with more history entries than this
MaxBalance == 2       \* no trade starts with a stored balance beyond this

----------------------------------------------------------------------------
(* Values *)

None == << >>

Times == 0..MaxTime

\* str comparison a < b of Python: lexicographic, a proper prefix is smaller
RECURSIVE StrLess(_, _)
StrLess(a, b) ==
    IF b = << >> THEN FALSE
    ELSE IF a = << >> THEN TRUE
    ELSE IF Head(a) # Head(b) THEN Head(a) < Head(b)
    ELSE StrLess(Tail(a), Tail(b))

StrGreater(a, b) == StrLess(b, a)

\* truthiness of a str-or-None
Truthy(s) == s # << >>

\* `x or ""`
OrEmpty(s) == IF Truthy(s) THEN s ELSE << >>

\* _now_iso_z(): fixed-width, zero-padded UTC text of the clock value
_now_iso_z(t) == << t \div 10, t % 10 >>

Stamps == { _now_iso_z(t) : t \in Times }

\* float values: exact fractions
Frac(n, d) == [n |-> n, d |-> d]
Zero == Frac(0, 1)
One == Frac(1, 1)
IsZero(r) == r.n = 0
IsPositive(r) == (r.n > 0 /\ r.d > 0) \/ (r.n < 0 /\ r.d < 0)
\* 1.0 / r, for r # 0
Inverse(r) == Frac(r.d, r.n)
\* what the evaluation of 1.0 / r ends with: the quotient, or ZeroDivisionError
DivisionByZero == [raised |-> "ZeroDivisionError"]
OneOver(r) == IF IsZero(r) THEN DivisionByZero ELSE Inverse(r)

Rates == { Zero, Frac(2, 1), Frac(1, 2) }

Currencies == { "USD", "EUR", "BTC" }
PairKey(from, to) == << from, to >>

\* dicts PairKey -> entry over the key sets in KS
PairsOver(KS, E) == UNION { [S -> E] : S \in KS }

EmptyPairs == [p \in {} |-> Zero]

----------------------------------------------------------------------------
(* Files *)

RatesJson == "rates.json"
RatesTmp == "rates.tmp"
HistoryJson == "exchange_rates.json"
HistoryTmp == "exchange_rates.tmp"
FileNames == { RatesJson, RatesTmp, HistoryJson, HistoryTmp }

Missing == [kind |-> "missing"]
\* zero bytes: what open(path, "w") leaves before the first write
EmptyText == [kind |-> "empty"]
\* bytes that are no JSON document
Garbage == [kind |-> "garbage"]
\* json.dumps(items) of a list
DumpsList(items) == [kind |-> "list", items |-> items]
\* a valid JSON document that is no object: []
NonObject == DumpsList(<< >>)
\* json.dumps({}) : the object without any key
EmptyObject == [kind |-> "object", haspairs |-> FALSE, pairs |-> EmptyPairs,
                last_refresh |-> None]
\* json.dumps({"pairs": p, "last_refresh": lr})
Dumps(out) == [kind |-> "object", haspairs |-> TRUE, pairs |-> out.pairs,
               last_refresh |-> out.last_refresh]
\* bytes of two different documents written over each other
Mixed == [kind |-> "mixed"]

\* json.loads raises JSONDecodeError on these
IsJson(text) == text.kind \in { "object", "list" }

EmptySnapshot == [raised |-> "none", pairs |-> EmptyPairs, last_refresh |-> None]

\* Path.exists()
Exists(f, name) == f[name] # Missing

\* open(name, "w"): creates the file or truncates it to zero bytes
OpenW(f, name) == [f EXCEPT ![name] = EmptyText]

\* Path.write_text(text) run to completion: open, write, close
WriteText(f, name, text) == [OpenW(f, name) EXCEPT ![name] = text]

\* Path.rename(dst) on an existing src: dst now names the bytes of src
Rename(f, src, dst) == [f EXCEPT ![dst] = f[src], ![src] = Missing]

----------------------------------------------------------------------------
(* parser_service/storage.py : RatesStorage *)

Snapshot(pairs, last_refresh) ==
    [raised |-> "none", pairs |-> pairs, last_refresh |-> last_refresh]

load_unchecked(f) ==
    IF ~Exists(f, RatesJson) THEN EmptySnapshot
    ELSE IF ~IsJson(f[RatesJson]) THEN EmptySnapshot
    ELSE IF f[RatesJson].kind # "object"
    THEN [raised |-> "AttributeError", pairs |-> EmptyPairs, last_refresh |-> None]
    ELSE Snapshot(IF f[RatesJson].haspairs THEN f[RatesJson].pairs ELSE EmptyPairs,
                  f[RatesJson].last_refresh)

\* RatesStorage.load: the snapshot it returns (it has no raise of its own and
\* catches the JSONDecodeError of json.loads)
load(f) ==
    IF ~Exists(f, RatesJson) THEN EmptySnapshot
    ELSE IF ~IsJson(f[RatesJson]) THEN EmptySnapshot
    ELSE IF f[RatesJson].kind # "object" THEN EmptySnapshot
    ELSE Snapshot(IF f[RatesJson].haspairs THEN f[RatesJson].pairs ELSE EmptyPairs,
                  f[RatesJson].last_refresh)

SaveTextNoStamp(data) ==
    Dumps([pairs |-> data.pairs, last_refresh |-> None])

\* the text RatesStorage.save writes to the temporary file
SaveText(data) ==
    Dumps([pairs |-> data.pairs, last_refresh |-> data.last_refresh])

\* RatesStorage.save, run without interruption
save(f, data) == Rename(WriteText(f, RatesTmp, SaveText(data)), RatesTmp, RatesJson)

_is_newer_ge(a, b) ==
    IF Truthy(a) /\ ~Truthy(b) THEN TRUE
    ELSE IF ~Truthy(a) THEN FALSE
    ELSE ~StrLess(a, OrEmpty(b))

\* RatesStorage._is_newer
_is_newer(a, b) ==
    IF Truthy(a) /\ ~Truthy(b) THEN TRUE
    ELSE IF ~Truthy(a) THEN FALSE
    ELSE StrGreater(a, OrEmpty(b))

\* the loop of upsert_pairs with `updated += 1` outside the test _is_newer
UpsertMergeCountAll(pairs, new_pairs) ==
    LET replaced == { p \in DOMAIN new_pairs :
                        _is_newer(new_pairs[p].updated_at,
                                  IF p \in DOMAIN pairs THEN pairs[p].updated_at
                                  ELSE None) }
    IN [table |-> [p \in DOMAIN pairs \cup replaced |->
                      IF p \in replaced THEN new_pairs[p] ELSE pairs[p]],
        updated |-> Cardinality(DOMAIN new_pairs)]

\* the loop of upsert_pairs over new_pairs: the pair table it ends with
UpsertMerge(pairs, new_pairs) ==
    LET replaced == { p \in DOMAIN new_pairs :
                        _is_newer(new_pairs[p].updated_at,
                                  IF p \in DOMAIN pairs THEN pairs[p].updated_at
                                  ELSE None) }
    IN [table |-> [p \in DOMAIN pairs \cup replaced |->
                      IF p \in replaced THEN new_pairs[p] ELSE pairs[p]],
        updated |-> Cardinality(replaced)]

\* upsert_pairs that saves only when it replaced or inserted a pair
upsert_pairs_save_if_updated(f, new_pairs, last_refresh) ==
    LET cache == load(f)
        m == UpsertMerge(cache.pairs, new_pairs)
    IN [files |-> IF m.updated > 0
                  THEN save(f, [pairs |-> m.table, last_refresh |-> last_refresh])
                  ELSE f,
        updated |-> m.updated]

\* RatesStorage.upsert_pairs: the files it leaves and the count it returns
upsert_pairs(f, new_pairs, last_refresh) ==
    LET cache == load(f)
        m == UpsertMerge(cache.pairs, new_pairs)
    IN [files |-> save(f, [pairs |-> m.table, last_refresh |-> last_refresh]),
        updated |-> m.updated]

\* append_to_history that starts from an empty list whatever the file holds
append_to_history_overwrite(f, entries) ==
    IF entries = << >> THEN f
    ELSE Rename(WriteText(f, HistoryTmp, DumpsList(entries)), HistoryTmp, HistoryJson)

\* RatesStorage.append_to_history: the files it leaves
append_to_history(f, entries) ==
    IF entries = << >> THEN f
    ELSE LET history ==
                 IF ~Exists(f, HistoryJson) THEN << >>
                 ELSE IF f[HistoryJson].kind = "empty" THEN << >>
                 ELSE IF ~IsJson(f[HistoryJson]) THEN << >>
                 ELSE IF f[HistoryJson].kind # "list" THEN << >>
                 ELSE f[HistoryJson].items
         IN Rename(WriteText(f, HistoryTmp, DumpsList(history \o entries)),
                   HistoryTmp, HistoryJson)

----------------------------------------------------------------------------
(* parser_service/config.py, parser_service/api_clients.py *)

\* ParserConfig, with one crypto and one fiat currency configured
ParserConfig(key) ==
    [EXCHANGERATE_API_KEY |-> key,
     BASE_FIAT_CURRENCY |-> "USD",
     FIAT_CURRENCIES |-> { "EUR" },
     CRYPTO_ID_MAP |-> [c \in { "BTC" } |-> "bitcoin"]]

ApiKeys == { None, << 7 >> }

\* one value of a provider's JSON body
Absent == [t |-> "absent"]
Bad == [t |-> "bad"]            \* present, but float() rejects it
Num(r) == [t |-> "num", v |-> r]
RawValues == { Absent, Bad, Num(Zero), Num(Frac(2, 1)) }

\* what the HTTP call of a client comes back with
NetworkError == [kind |-> "neterr"]      \* requests raises RequestException
BadStatus == [kind |-> "status"]         \* status_code != 200
BadJson == [kind |-> "badjson"]          \* resp.json() raises ValueError
NotADict == [kind |-> "notadict"]        \* JSON, but not the expected object
Ok(body) == [kind |-> "ok", body |-> body]

Responses(keys) ==
    { NetworkError, BadStatus, BadJson, NotADict }
    \cup { Ok(b) : b \in [keys -> RawValues] }

Returned(rates) == [raised |-> "none", rates |-> rates]
Raised(exc) == [raised |-> exc, rates |-> EmptyPairs]

\* CoinGeckoClient.fetch_rates
CoinGeckoFetch(config, resp) ==
    IF resp.kind = "neterr" THEN Raised("ApiRequestError")
    ELSE IF resp.kind = "status" THEN Raised("ApiRequestError")
    ELSE IF resp.kind = "badjson" THEN Raised("ApiRequestError")
    ELSE IF resp.kind = "notadict" THEN Returned(EmptyPairs)
    ELSE LET good == { code \in DOMAIN config.CRYPTO_ID_MAP :
                         resp.body[config.CRYPTO_ID_MAP[code]].t = "num" }
         IN Returned([p \in { PairKey(code, config.BASE_FIAT_CURRENCY) : code \in good }
                        |-> resp.body[config.CRYPTO_ID_MAP[p[1]]].v])

\* the request of ExchangeRateApiClient.fetch_rates and the parsing of its body
ExchangeRateRequest(config, resp) ==
    IF resp.kind = "neterr" THEN Raised("ApiRequestError")
    ELSE IF resp.kind = "status" THEN Raised("ApiRequestError")
    ELSE IF resp.kind = "badjson" THEN Raised("ApiRequestError")
    ELSE IF resp.kind = "notadict" THEN Raised("ApiRequestError")
    ELSE LET codes == { c \in config.FIAT_CURRENCIES : c # config.BASE_FIAT_CURRENCY }
             present == { c \in codes : resp.body[c].t # "absent" }
             kept == { c \in present : ~IsZero(resp.body[c].v) }
         IN IF \E c \in present : resp.body[c].t = "bad"
            THEN Raised("ApiRequestError")
            ELSE Returned([p \in { PairKey(c, config.BASE_FIAT_CURRENCY) : c \in kept }
                             |-> Inverse(resp.body[p[1]].v)])

\* ExchangeRateApiClient.fetch_rates; ParserConfig.require_exchangerate_key
\* raises RuntimeError when no key is configured
ExchangeRateFetch(config, resp) ==
    IF ~Truthy(config.EXCHANGERATE_API_KEY) THEN Raised("RuntimeError")
    ELSE ExchangeRateRequest(config, resp)

\* the clients _init_parser builds, in the order it lists them
Clients == << [name |-> "coingecko", display_name |-> "CoinGecko"],
              [name |-> "exchangerate", display_name |-> "ExchangeRate-API"] >>

ClientNames == { Clients[i].name : i \in DOMAIN Clients }

fetch_rates(client, config, resp) ==
    IF client.name = "coingecko" THEN CoinGeckoFetch(config, resp[client.name])
    ELSE ExchangeRateFetch(config, resp[client.name])

----------------------------------------------------------------------------
(* parser_service/updater.py : RatesUpdater *)

\* str.lower() on the source names a caller may pass
Lower(s) == IF s = "CoinGecko" THEN "coingecko" ELSE s

SourceFilters == { "", "coingecko", "CoinGecko", "exchangerate", "other" }

\* the selection of run_update made without str.lower()
ChosenCaseSensitive(source) ==
    IF source = "" THEN Clients
    ELSE SelectSeq(Clients, LAMBDA c : c.name = source)

\* the clients run_update selects
Chosen(source) ==
    IF source = "" THEN Clients
    ELSE SelectSeq(Clients, LAMBDA c : Lower(c.name) = Lower(source))

\* the dict merged_pairs after the loop body has stored the rates of one client
MergeRates(merged, rates, updated_at, display_name) ==
    [p \in DOMAIN merged \cup DOMAIN rates |->
        IF p \in DOMAIN rates
        THEN [rate |-> rates[p], updated_at |-> updated_at, source |-> display_name]
        ELSE merged[p]]

\* the history entries of one client, in an order of the dict's keys
RECURSIVE HistoryOf(_, _, _, _)
HistoryOf(keys, rates, updated_at, display_name) ==
    IF keys = {} THEN << >>
    ELSE LET p == CHOOSE k \in keys : TRUE
         IN << [id |-> << p, updated_at >>, from_currency |-> p[1],
                to_currency |-> p[2], rate |-> rates[p],
                timestamp |-> updated_at, source |-> display_name] >>
            \o HistoryOf(keys \ { p }, rates, updated_at, display_name)

NotFetched == [raised |-> "notcalled", rates |-> EmptyPairs]

LoopStart ==
    [merged_pairs |-> EmptyPairs, history_entries |-> << >>, errors |-> 0,
     ok_total |-> 0, called |-> << >>, raised |-> "none",
     fetched |-> [c \in ClientNames |-> NotFetched]]

\* what the loop body does with the outcome r of client.fetch_rates()
AfterFetchSkipRest(acc, client, r, updated_at) ==
    IF r.raised = "none"
    THEN [acc EXCEPT !.ok_total = @ + Cardinality(DOMAIN r.rates),
                     !.merged_pairs = MergeRates(@, r.rates, updated_at,
                                                 client.display_name),
                     !.history_entries = @ \o HistoryOf(DOMAIN r.rates, r.rates,
                                                        updated_at, client.display_name)]
    ELSE [acc EXCEPT !.errors = @ + 1, !.raised = r.raised]

AfterFetch(acc, client, r, updated_at) ==
    IF r.raised = "none"
    THEN [acc EXCEPT !.ok_total = @ + Cardinality(DOMAIN r.rates),
                     !.merged_pairs = MergeRates(@, r.rates, updated_at,
                                                 client.display_name),
                     !.history_entries = @ \o HistoryOf(DOMAIN r.rates, r.rates,
                                                        updated_at, client.display_name)]
    ELSE IF r.raised = "ApiRequestError"
    THEN [acc EXCEPT !.errors = @ + 1]
    ELSE [acc EXCEPT !.raised = r.raised]

\* the body of the loop of run_update for one client
LoopBody(acc, client, config, resp, at) ==
    AfterFetch([acc EXCEPT !.called = Append(@, client.name),
                           !.fetched[client.name] = fetch_rates(client, config, resp)],
               client, fetch_rates(client, config, resp), _now_iso_z(at[client.name]))

\* the loop of run_update over the chosen clients; any exception other than
\* ApiRequestError leaves the loop and run_update
RECURSIVE Loop(_, _, _, _, _)
Loop(acc, chosen, config, resp, at) ==
    IF chosen = << >> \/ acc.raised # "none" THEN acc
    ELSE Loop(LoopBody(acc, Head(chosen), config, resp, at),
              Tail(chosen), config, resp, at)

NoReport == [updated |-> 0, last_refresh |-> None, errors |-> 0]

\* RatesUpdater.run_update: the files it leaves, and its report or exception
run_update(f, source, config, resp, t0, at) ==
    LET last_refresh == _now_iso_z(t0)
        acc == Loop(LoopStart, Chosen(source), config, resp, at)
        u == upsert_pairs(f, acc.merged_pairs, last_refresh)
    IN IF acc.raised # "none"
       THEN [files |-> f, raised |-> acc.raised, called |-> acc.called,
             fetched |-> acc.fetched, errors |-> acc.errors, report |-> NoReport]
       ELSE [files |-> append_to_history(u.files, acc.history_entries),
             raised |-> "none", called |-> acc.called,
             fetched |-> acc.fetched, errors |-> acc.errors,
             report |-> [updated |-> u.updated, last_refresh |-> last_refresh,
                         errors |-> acc.errors]]

----------------------------------------------------------------------------
(* The store used by one caller at a time *)

NoThreads == [t \in {} |-> "idle"]

\* no RatesScheduler is constructed (nothing in cli/ or core/ constructs one)
NoScheduler == [constructed |-> FALSE]

\* the session of the WalletApp plays no part in the runs of this section
SessionNotFollowed == [followed |-> FALSE]

\* texts rates.json may hold when the program starts
StoredKeySets == SUBSET { PairKey("BTC", "USD"), PairKey("EUR", "USD") }
StoredEntries == [rate : { Frac(2, 1) }, updated_at : Stamps, source : { "CoinGecko" }]
StoredTexts ==
    { Missing, EmptyText, Garbage, NonObject, EmptyObject }
    \cup { Dumps([pairs |-> ps, last_refresh |-> lr]) :
             ps \in PairsOver(StoredKeySets, StoredEntries), lr \in { None } \cup Stamps }

\* mappings a caller passes to upsert_pairs
IncomingEntries == [rate : { Frac(1, 2) }, updated_at : Stamps, source : { "ExchangeRate-API" }]
IncomingPairs ==
    PairsOver({ S \in StoredKeySets : Cardinality(S) <= MaxIncoming }, IncomingEntries)

InitStore ==
    /\ files \in { [n \in FileNames |-> IF n = RatesJson THEN t ELSE Missing] :
                     t \in StoredTexts }
    /\ now = 0
    /\ writes = {}
    /\ last = [op |-> "init"]
    /\ pre = files[RatesJson]
    /\ pc = NoThreads
    /\ snap = NoThreads
    /\ handle = NoThreads
    /\ seen = Missing
    /\ sched = NoScheduler
    /\ app = SessionNotFollowed

Load ==
    /\ last' = [op |-> "load", raised |-> load(files).raised,
                 result |-> [pairs |-> load(files).pairs,
                             last_refresh |-> load(files).last_refresh]]
    /\ pre' = files[RatesJson]
    /\ UNCHANGED <<files, now, writes, pc, snap, handle, seen, sched, app>>

\* upsert_pairs that merges into an empty table instead of the loaded one
UpsertPairsFromEmpty ==
    \E new_pairs \in IncomingPairs, lr \in Stamps :
        LET m == UpsertMerge(EmptyPairs, new_pairs)
        IN /\ files' = save(files, [pairs |-> m.table, last_refresh |-> lr])
           /\ writes' = writes \cup { "rename" }
           /\ last' = [op |-> "upsert_pairs", new_pairs |-> new_pairs,
                       last_refresh |-> lr, updated |-> m.updated]
           /\ pre' = files[RatesJson]
           /\ UNCHANGED <<now, pc, snap, handle, seen, sched, app>>

UpsertPairs ==
    \E new_pairs \in IncomingPairs, lr \in Stamps :
        LET r == upsert_pairs(files, new_pairs, lr)
        IN /\ files' = r.files
           /\ writes' = writes \cup { "rename" }
           /\ last' = [op |-> "upsert_pairs", new_pairs |-> new_pairs,
                       last_refresh |-> lr, updated |-> r.updated]
           /\ pre' = files[RatesJson]
           /\ UNCHANGED <<now, pc, snap, handle, seen, sched, app>>

\* storage.save(storage.load()): the snapshot load returns is saved as it is
SaveLoaded ==
    \E data \in { load(files) } :
        /\ files' = save(files, data)
        /\ writes' = writes \cup { "rename" }
        /\ last' = [op |-> "save", data |-> [pairs |-> data.pairs,
                                              last_refresh |-> data.last_refresh]]
        /\ pre' = files[RatesJson]
        /\ UNCHANGED <<now, pc, snap, handle, seen, sched, app>>

NextStore == Load \/ UpsertPairs \/ SaveLoaded

SpecStore == InitStore /\ [][NextStore]_vars

----------------------------------------------------------------------------
(* C1: upsert_pairs replaces the stored entry of an incoming pair exactly  *)
(* when the pair was absent from the stored snapshot or the incoming       *)
(* updated_at is lexicographically strictly greater than the stored one;   *)
(* otherwise the stored rate, updated_at and source stay as they were.     *)

StoredBefore == load([n \in FileNames |-> IF n = RatesJson THEN pre ELSE Missing]).pairs
StoredAfter == load(files).pairs

Newer(p) ==
    \/ p \notin DOMAIN StoredBefore
    \/ StrGreater(last.new_pairs[p].updated_at, StoredBefore[p].updated_at)

UpsertReplacesOnlyNewer ==
    last.op = "upsert_pairs" =>
        \A p \in DOMAIN last.new_pairs :
            /\ p \in DOMAIN StoredAfter
            /\ Newer(p) => StoredAfter[p] = last.new_pairs[p]
            /\ ~Newer(p) => StoredAfter[p] = StoredBefore[p]

\* an older or equal incoming pair was rejected and a newer one was taken
UpsertReplacesOnlyNewerWitness ==
    /\ last.op = "upsert_pairs"
    /\ \E p \in DOMAIN last.new_pairs :
          /\ ~Newer(p)
          /\ StoredAfter[p] # last.new_pairs[p]
    /\ \E p \in DOMAIN last.new_pairs :
          /\ p \in DOMAIN StoredBefore
          /\ Newer(p)
          /\ StoredAfter[p] # StoredBefore[p]

UpsertIsIdempotent ==
    [][(/\ last.op = "upsert_pairs"
        /\ last'.op = "upsert_pairs"
        /\ last'.new_pairs = last.new_pairs) =>
           /\ last'.updated = 0
           /\ StoredAfter' = StoredAfter]_vars

\* every incoming pair was already stored exactly as it came in (by the call
\* before: no file the program starts with holds such an entry), and was
\* not counted
UpsertIsIdempotentWitness ==
    /\ last.op = "upsert_pairs"
    /\ Cardinality(DOMAIN last.new_pairs) = 2
    /\ \A p \in DOMAIN last.new_pairs :
          /\ p \in DOMAIN StoredBefore
          /\ StoredBefore[p] = last.new_pairs[p]
          /\ StoredAfter[p] = last.new_pairs[p]
    /\ last.updated = 0

RefreshBefore ==
    load([n \in FileNames |-> IF n = RatesJson THEN pre ELSE Missing]).last_refresh
RefreshAfter == load(files).last_refresh

----------------------------------------------------------------------------
(* The refresh coordinator used by one caller at a time *)

AllMissing == [n \in FileNames |-> Missing]

HistoryLen(f) ==
    IF f[HistoryJson].kind = "list" THEN Len(f[HistoryJson].items) ELSE 0

InitUpdate ==
    /\ files = AllMissing
    /\ now = 0
    /\ writes = {}
    /\ last = [op |-> "init"]
    /\ pre = Missing
    /\ pc = NoThreads
    /\ snap = NoThreads
    /\ handle = NoThreads
    /\ seen = Missing
    /\ sched = NoScheduler
    /\ app = SessionNotFollowed

\* the clock moves on between two calls
Tick ==
    /\ now < MaxTime
    /\ now' = now + 1
    /\ UNCHANGED <<files, writes, last, pre, pc, snap, handle, seen, sched, app>>

IsChosen(source, c) == \E i \in DOMAIN Chosen(source) : Chosen(source)[i].name = c

ClientNamed(c) == Clients[CHOOSE i \in DOMAIN Clients : Clients[i].name = c]

\* seconds a fetch may take
FetchSeconds == { 0, 1 }

\* what a provider answers during a refresh: a failed request (the ways a
\* request fails are told apart in fetch_rates only), a body that is no
\* object, or an object
Upstream(keys) == { NetworkError, NotADict } \cup { Ok(b) : b \in [keys -> RawValues] }

\* one call of run_update: the environment supplies the API key, the answer
\* of every selected provider and the time each fetch takes (a client that is
\* not selected takes none; without a key the fiat client raises before it
\* sends a request)
RunUpdate ==
    /\ HistoryLen(files) <= MaxHistory
    /\ \E source \in SourceFilters :
       \E key \in IF IsChosen(source, "exchangerate") THEN ApiKeys ELSE { None } :
       \E d1 \in IF IsChosen(source, "coingecko") THEN FetchSeconds ELSE { 0 },
          d2 \in IF Truthy(key) THEN FetchSeconds ELSE { 0 } :
       \E cg \in IF IsChosen(source, "coingecko") THEN Upstream({ "bitcoin" })
                 ELSE { NetworkError },
          er \in IF Truthy(key) THEN Upstream({ "EUR" }) ELSE { NetworkError } :
       \E r \in { run_update(files, source, ParserConfig(key),
                             [c \in ClientNames |-> IF c = "coingecko" THEN cg ELSE er],
                             now,
                             [c \in ClientNames |-> IF c = "coingecko" THEN now + d1
                                                    ELSE now + d1 + d2]) } :
          /\ now + d1 + d2 <= MaxTime
          /\ files' = r.files
          /\ now' = now + d1 + d2
          /\ writes' = IF r.raised = "none" THEN writes \cup { "rename" } ELSE writes
          /\ last' = [op |-> "run_update", source |-> source,
                      fetched |-> r.fetched, called |-> r.called,
                      raised |-> r.raised, errors |-> r.errors,
                      report |-> r.report, started |-> now]
          /\ pre' = files[RatesJson]
          /\ UNCHANGED <<pc, snap, handle, seen, sched, app>>

NextUpdate == Tick \/ RunUpdate

SpecUpdate == InitUpdate /\ [][NextUpdate]_vars

\* names of the clients run_update selected in the call that has just ended
ChosenNames == { Chosen(last.source)[i].name : i \in DOMAIN Chosen(last.source) }
DisplayName(c) == ClientNamed(c).display_name
WasCalled(c) == \E i \in DOMAIN last.called : last.called[i] = c
RaisedUpstream == { c \in ChosenNames : WasCalled(c) /\ last.fetched[c].raised = "ApiRequestError" }

\* the cache holds the pair p that client d returned, unless it held a pair
\* at least as new
Written(d, p) ==
    /\ p \in DOMAIN StoredAfter
    /\ \/ /\ StoredAfter[p].rate = last.fetched[d].rates[p]
          /\ StoredAfter[p].source = DisplayName(d)
       \/ /\ p \in DOMAIN StoredBefore
          /\ StoredAfter[p] = StoredBefore[p]

(* C2: in one run_update cycle a client whose fetch raises UpstreamError   *)
(* only adds one to the error counter: every other selected client is      *)
(* still called, what they return is merged and written to the cache, and  *)
(* the returned error count is the number of selected clients that raised. *)
UpstreamErrorIsIsolated ==
    (last.op = "run_update" /\ RaisedUpstream # {}) =>
        /\ \A d \in ChosenNames : WasCalled(d)
        /\ \A d \in ChosenNames : last.fetched[d].raised = "none" =>
              \A p \in DOMAIN last.fetched[d].rates : Written(d, p)
        /\ last.errors = Cardinality(RaisedUpstream)
        /\ last.raised = "none" => last.report.errors = Cardinality(RaisedUpstream)

\* the first client failed, the second one returned a pair that was stored
UpstreamErrorIsIsolatedWitness ==
    /\ last.op = "run_update"
    /\ last.raised = "none"
    /\ RaisedUpstream = { "coingecko" }
    /\ last.report.errors = 1
    /\ last.report.updated = 1
    /\ \E p \in DOMAIN last.fetched["exchangerate"].rates :
          /\ p \in DOMAIN StoredAfter
          /\ StoredAfter[p].source = "ExchangeRate-API"

(* C3: no provider-level failure escapes run_update: however a selected    *)
(* client's fetch_rates fails, run_update counts it and returns its report.*)
NoFailureEscapesRunUpdate ==
    last.op = "run_update" => last.raised = "none"

(* C19: every pair a refresh cycle writes to the cache has rate > 0: a zero *)
(* or otherwise degenerate rate a provider returns, crypto or fiat, is      *)
(* dropped by the client and does not reach the stored pair table.          *)
StoredRatesArePositive ==
    (last.op = "run_update" /\ last.raised = "none") =>
        \A p \in DOMAIN StoredAfter :
            (p \notin DOMAIN StoredBefore \/ StoredAfter[p] # StoredBefore[p]) =>
                IsPositive(StoredAfter[p].rate)

\* the entries of the history log exchange_rates.json
HistoryItems ==
    IF files[HistoryJson].kind = "list" THEN files[HistoryJson].items ELSE << >>

IsPrefix(a, b) == Len(a) <= Len(b) /\ SubSeq(b, 1, Len(a)) = a

Selected ==
    IF last.source = "" THEN ClientNames
    ELSE { c \in ClientNames : Lower(c) = Lower(last.source) }

\* the pairs whose stored entry the call that has just ended inserted or
\* replaced
Changed ==
    { p \in DOMAIN StoredAfter : p \notin DOMAIN StoredBefore
                                 \/ StoredAfter[p] # StoredBefore[p] }

(* C23: run_update(source_filter) calls fetch_rates once on each client     *)
(* whose name equals the filter ignoring letter case, on every client when  *)
(* no filter is given, and on no other client; a client that is not         *)
(* selected is never called, is counted in no error and is the source of no *)
(* pair the call stores.                                                    *)
OnlySelectedClientsAreCalled ==
    last.op = "run_update" =>
        /\ \A c \in ClientNames : WasCalled(c) <=> c \in Selected
        /\ Len(last.called) = Cardinality(Selected)
        /\ \A c \in ClientNames \ Selected : last.fetched[c] = NotFetched
        /\ last.errors =
               Cardinality({ c \in Selected : last.fetched[c].raised = "ApiRequestError" })
        /\ \A p \in Changed :
              \E c \in Selected : /\ StoredAfter[p].source = DisplayName(c)
                                  /\ p \in DOMAIN last.fetched[c].rates

\* the filter "CoinGecko" selected the client named "coingecko" and only it;
\* its pair was stored
OnlySelectedClientsAreCalledWitness ==
    /\ last.op = "run_update"
    /\ last.source = "CoinGecko"
    /\ last.called = << "coingecko" >>
    /\ last.fetched["exchangerate"] = NotFetched
    /\ Changed = { PairKey("BTC", "USD") }
    /\ last.report.updated = 1

(* C24: run_update takes one refresh timestamp, from the clock as it stands *)
(* when the call starts (last.started) and so before any client is called   *)
(* (no pair the call stores is older than it); after every run_update that  *)
(* returns, the last_refresh stored in rates.json is the last_refresh of    *)
(* the report, also when every client failed, none was selected or no pair  *)
(* was newer.                                                               *)
RefreshStampIsStored ==
    (last.op = "run_update" /\ last.raised = "none") =>
        /\ last.report.last_refresh = _now_iso_z(last.started)
        /\ files[RatesJson].kind = "object"
        /\ RefreshAfter = last.report.last_refresh
        /\ \A p \in Changed :
              ~StrGreater(last.report.last_refresh, StoredAfter[p].updated_at)

\* every selected client failed and nothing was stored, on a cache that held
\* an older refresh timestamp: the new one is stored
RefreshStampIsStoredWitness ==
    /\ last.op = "run_update"
    /\ last.raised = "none"
    /\ last.errors = 2
    /\ last.report.updated = 0
    /\ Truthy(RefreshBefore)
    /\ RefreshBefore # RefreshAfter
    /\ RefreshAfter = last.report.last_refresh

(* C25: the count upsert_pairs returns is the number of incoming pairs      *)
(* whose stored entry that call inserted or replaced, no more and no less;  *)
(* the `updated` of a run_update report is that count for the pairs its     *)
(* clients returned.                                                        *)
UpdatedCountsReplacedPairs ==
    /\ last.op = "upsert_pairs" =>
          /\ Changed \subseteq DOMAIN last.new_pairs
          /\ \A p \in Changed : StoredAfter[p] = last.new_pairs[p]
          /\ last.updated = Cardinality(Changed)
    /\ (last.op = "run_update" /\ last.raised = "none") =>
          last.report.updated = Cardinality(Changed)

\* two incoming pairs, one newer than the stored entry and one not: the
\* count is 1
UpdatedCountsReplacedPairsWitness ==
    /\ last.op = "upsert_pairs"
    /\ Cardinality(DOMAIN last.new_pairs) = 2
    /\ DOMAIN last.new_pairs \subseteq DOMAIN StoredBefore
    /\ Cardinality(Changed) = 1
    /\ last.updated = 1

(* C28: one call of upsert_pairs leaves every stored pair whose key is not  *)
(* in the incoming mapping as it was: the saved snapshot holds it with the  *)
(* same rate, updated_at and source.                                        *)
UpsertLeavesOtherPairs ==
    last.op = "upsert_pairs" =>
        \A p \in DOMAIN StoredBefore \ DOMAIN last.new_pairs :
            /\ p \in DOMAIN StoredAfter
            /\ StoredAfter[p] = StoredBefore[p]

\* an upsert that stored its incoming pair next to a stored pair it did not
\* bring
UpsertLeavesOtherPairsWitness ==
    /\ last.op = "upsert_pairs"
    /\ last.updated = 1
    /\ DOMAIN StoredBefore \ DOMAIN last.new_pairs # {}
    /\ Changed = DOMAIN last.new_pairs
    /\ DOMAIN StoredAfter = DOMAIN StoredBefore \cup DOMAIN last.new_pairs
    /\ files[RatesJson].last_refresh = last.last_refresh

----------------------------------------------------------------------------
(* core/utils.py, infra/database.py, core/currencies.py, core/usecases.py *)

\* write_json(path, data) run to completion: open(path, "w") and json.dump
\* into the file itself
write_json(f, name, text) == [OpenW(f, name) EXCEPT ![name] = text]

\* read_json(path, default = {}) as DatabaseManager.load_rates calls it: the
\* parsed document or the exception, and the files it leaves
read_json(f, name) ==
    IF ~Exists(f, name)
    THEN [raised |-> "none", data |-> EmptyObject,
          files |-> write_json(f, name, EmptyObject), created |-> TRUE]
    ELSE IF ~IsJson(f[name])
    THEN [raised |-> "JSONDecodeError", data |-> EmptyObject, files |-> f,
          created |-> FALSE]
    ELSE [raised |-> "none", data |-> f[name], files |-> f, created |-> FALSE]

\* WalletApp._load_rates: any exception of load_rates becomes {}
_load_rates(f) ==
    IF read_json(f, RatesJson).raised # "none"
    THEN [read_json(f, RatesJson) EXCEPT !.raised = "none", !.data = EmptyObject]
    ELSE read_json(f, RatesJson)

\* the codes a caller may type, and str.strip().upper() on them
TypedCodes == { "USD", "BTC", "btc", "EUR", "XXX" }
normalize_currency(code) == IF code = "btc" THEN "BTC" ELSE code

\* get_currency raises CurrencyNotFoundError for a code outside _CURRENCIES
IsCurrency(code) == code \in Currencies

\* the dict `pairs` the lookups search, given the parsed document (a dict)
PairsOf(rates_data) ==
    IF rates_data.haspairs THEN rates_data.pairs ELSE EmptyPairs

\* what a lookup ends with: the values it returns or the exception it raises;
\* a division by zero in the computation of a value is the exception
Answer(exc, rate, rate_inverse, updated_at, pair, advice) ==
    IF rate = DivisionByZero \/ rate_inverse = DivisionByZero
    THEN [raised |-> "ZeroDivisionError", rate |-> Zero, rate_inverse |-> Zero,
          updated_at |-> None, names |-> << >>, advice |-> "none"]
    ELSE [raised |-> exc, rate |-> rate, rate_inverse |-> rate_inverse,
          updated_at |-> updated_at, names |-> pair, advice |-> advice]

\* the other direction computed as 1.0 / rate without a test of the rate
InverseUnguarded(rate) == OneOver(rate)

\* get_rate_detailed: `1.0 / rate if rate != 0 else 0.0`
InverseOrZero(rate) == IF ~IsZero(rate) THEN OneOver(rate) ELSE Zero

NoPair == << >>
NA == << 0 >>      \* the text "N/A"

\* ApiRequestError("Курс для '<pair>' не найден в кеше. Попробуйте выполнить
\* update-rates.")
NotInCache(pair) == Answer("ApiRequestError", Zero, Zero, None, pair, "update-rates")

Fails(exc) == Answer(exc, Zero, Zero, None, NoPair, "none")

\* RATES_TTL_SECONDS of the settings, as configured for the runs checked here
\* (DEFAULTS sets 300; [tool.valutatrade] of pyproject.toml overrides it)
RATES_TTL_SECONDS == 1

\* dict.get(key) on the parsed cache document, for a key that holds a str or
\* null: the documents written to rates.json have the keys "pairs" and
\* "last_refresh" together, or no key at all
GetStr(rates_data, key) ==
    IF key = "last_refresh" /\ rates_data.haspairs THEN rates_data.last_refresh
    ELSE None

\* seconds between the clock value t and a timestamp text
AgeSeconds(t, stamp) == t - (10 * stamp[1] + stamp[2])

\* the flag needs_update of get_rate: it reads the key "last_update"
NeedsUpdate(rates_data, t) ==
    LET last_update == GetStr(rates_data, "last_update")
    IN IF Truthy(last_update)
       THEN AgeSeconds(t, last_update) > RATES_TTL_SECONDS
       ELSE TRUE

GetRateInverseFirst(currency, base, rates_data) ==
    IF rates_data.kind # "object" THEN Fails("AttributeError")
    ELSE IF PairKey(base, currency) \in DOMAIN PairsOf(rates_data)
    THEN IF ~IsZero(PairsOf(rates_data)[PairKey(base, currency)].rate)
         THEN Answer("none", Inverse(PairsOf(rates_data)[PairKey(base, currency)].rate),
                     Zero, None, NoPair, "none")
         ELSE Answer("ValueError", Zero, Zero, None, PairKey(base, currency), "none")
    ELSE IF PairKey(currency, base) \in DOMAIN PairsOf(rates_data)
    THEN Answer("none", PairsOf(rates_data)[PairKey(currency, base)].rate,
                Zero, None, NoPair, "none")
    ELSE NotInCache(PairKey(currency, base))

\* WalletApp.get_rate after _load_rates has returned rates_data: on a document
\* that is no dict rates_data.get raises; the warning of the staleness block
\* does not change the search
GetRateFrom(currency, base, rates_data) ==
    IF rates_data.kind # "object" THEN Fails("AttributeError")
    ELSE IF PairKey(currency, base) \in DOMAIN PairsOf(rates_data)
    THEN Answer("none", PairsOf(rates_data)[PairKey(currency, base)].rate,
                Zero, None, NoPair, "none")
    ELSE IF PairKey(base, currency) \in DOMAIN PairsOf(rates_data)
    THEN IF ~IsZero(PairsOf(rates_data)[PairKey(base, currency)].rate)
         THEN Answer("none", OneOver(PairsOf(rates_data)[PairKey(base, currency)].rate),
                     Zero, None, NoPair, "none")
         ELSE Answer("ValueError", Zero, Zero, None, PairKey(base, currency), "none")
    ELSE NotInCache(PairKey(currency, base))

\* get_rate that refreshes the cache itself when it finds it out of date
get_rate_auto_update(f, currency_code, base_currency, t) ==
    LET currency == normalize_currency(currency_code)
        base == normalize_currency(base_currency)
        refreshed == run_update(_load_rates(f).files, "", ParserConfig(<< 7 >>),
                                [c \in ClientNames |-> Ok([k \in { "bitcoin", "EUR" } |->
                                                             Num(Frac(2, 1))])],
                                t, [c \in ClientNames |-> t])
        needs_update == /\ _load_rates(f).data.kind = "object"
                        /\ NeedsUpdate(_load_rates(f).data, t)
    IN IF ~IsCurrency(currency) \/ ~IsCurrency(base)
       THEN [answer |-> Fails("CurrencyNotFoundError"), files |-> f, created |-> FALSE,
             needs_update |-> FALSE]
       ELSE IF currency = base
       THEN [answer |-> Answer("none", One, Zero, None, NoPair, "none"),
             files |-> f, created |-> FALSE, needs_update |-> FALSE]
       ELSE [answer |-> GetRateFrom(currency, base, _load_rates(f).data),
             files |-> IF needs_update THEN refreshed.files ELSE _load_rates(f).files,
             created |-> _load_rates(f).created,
             needs_update |-> needs_update]
\* WalletApp.get_rate at clock value t: its answer, the files it leaves and
\* whether it found the cache out of date (needs_update, which it logs)
get_rate(f, currency_code, base_currency, t) ==
    LET currency == normalize_currency(currency_code)
        base == normalize_currency(base_currency)
    IN IF ~IsCurrency(currency) \/ ~IsCurrency(base)
       THEN [answer |-> Fails("CurrencyNotFoundError"), files |-> f, created |-> FALSE,
             needs_update |-> FALSE]
       ELSE IF currency = base
       THEN [answer |-> Answer("none", One, Zero, None, NoPair, "none"),
             files |-> f, created |-> FALSE, needs_update |-> FALSE]
       ELSE [answer |-> GetRateFrom(currency, base, _load_rates(f).data),
             files |-> _load_rates(f).files, created |-> _load_rates(f).created,
             needs_update |-> /\ _load_rates(f).data.kind = "object"
                              /\ NeedsUpdate(_load_rates(f).data, t)]

GetRateDetailedInverseFirst(currency, base, rates_data) ==
    IF rates_data.kind # "object" THEN NotInCache(PairKey(currency, base))
    ELSE IF PairKey(base, currency) \in DOMAIN PairsOf(rates_data)
    THEN LET item_inverse == PairsOf(rates_data)[PairKey(base, currency)]
         IN Answer("none",
                   IF ~IsZero(item_inverse.rate) THEN Inverse(item_inverse.rate) ELSE Zero,
                   item_inverse.rate, item_inverse.updated_at, NoPair, "none")
    ELSE IF PairKey(currency, base) \in DOMAIN PairsOf(rates_data)
    THEN LET item_direct == PairsOf(rates_data)[PairKey(currency, base)]
         IN Answer("none", item_direct.rate,
                   IF ~IsZero(item_direct.rate) THEN Inverse(item_direct.rate) ELSE Zero,
                   item_direct.updated_at, NoPair, "none")
    ELSE NotInCache(PairKey(currency, base))

\* WalletApp.get_rate_detailed after _load_rates has returned rates_data
GetRateDetailedFrom(currency, base, rates_data) ==
    IF rates_data.kind # "object" THEN NotInCache(PairKey(currency, base))
    ELSE IF PairKey(currency, base) \in DOMAIN PairsOf(rates_data)
    THEN LET item_direct == PairsOf(rates_data)[PairKey(currency, base)]
         IN Answer("none", item_direct.rate, InverseOrZero(item_direct.rate),
                   item_direct.updated_at, NoPair, "none")
    ELSE IF PairKey(base, currency) \in DOMAIN PairsOf(rates_data)
    THEN LET item_inverse == PairsOf(rates_data)[PairKey(base, currency)]
         IN Answer("none", InverseOrZero(item_inverse.rate),
                   item_inverse.rate, item_inverse.updated_at, NoPair, "none")
    ELSE NotInCache(PairKey(currency, base))

\* get_rate_detailed with the test currency == base left out
get_rate_detailed_no_shortcut(f, currency_code, base_currency) ==
    LET currency == normalize_currency(currency_code)
        base == normalize_currency(base_currency)
    IN IF ~IsCurrency(currency) \/ ~IsCurrency(base)
       THEN [answer |-> Fails("CurrencyNotFoundError"), files |-> f, created |-> FALSE]
       ELSE [answer |-> GetRateDetailedFrom(currency, base, _load_rates(f).data),
             files |-> _load_rates(f).files, created |-> _load_rates(f).created]

\* WalletApp.get_rate_detailed: its answer and the files it leaves; it has no
\* staleness test and its result has no staleness key
get_rate_detailed(f, currency_code, base_currency) ==
    LET currency == normalize_currency(currency_code)
        base == normalize_currency(base_currency)
    IN IF ~IsCurrency(currency) \/ ~IsCurrency(base)
       THEN [answer |-> Fails("CurrencyNotFoundError"), files |-> f, created |-> FALSE]
       ELSE IF currency = base
       THEN [answer |-> Answer("none", One, One, NA, NoPair, "none"),
             files |-> f, created |-> FALSE]
       ELSE [answer |-> GetRateDetailedFrom(currency, base, _load_rates(f).data),
             files |-> _load_rates(f).files, created |-> _load_rates(f).created]

----------------------------------------------------------------------------
(* The rate lookup over any cache file *)

LookupKeySets == SUBSET { PairKey("BTC", "USD"), PairKey("USD", "BTC") }
LookupEntries == [rate : Rates, updated_at : Stamps, source : { "CoinGecko" }]
LookupTexts ==
    { Missing, EmptyText, Garbage, NonObject, EmptyObject }
    \cup { Dumps([pairs |-> ps, last_refresh |-> lr]) :
             ps \in PairsOver(LookupKeySets, LookupEntries), lr \in { None, _now_iso_z(0) } }

InitLookup ==
    /\ files \in { [n \in FileNames |-> IF n = RatesJson THEN t ELSE Missing] :
                     t \in LookupTexts }
    /\ now \in Times
    /\ writes = {}
    /\ last = [op |-> "init"]
    /\ pre = files[RatesJson]
    /\ pc = NoThreads
    /\ snap = NoThreads
    /\ handle = NoThreads
    /\ seen = Missing
    /\ sched = NoScheduler
    /\ app = SessionNotFollowed

GetRate ==
    \E from \in TypedCodes, to \in TypedCodes :
    \E r \in { get_rate(files, from, to, now) } :
        /\ files' = r.files
        /\ writes' = IF r.created THEN writes \cup { "in place" } ELSE writes
        /\ last' = [op |-> "get_rate", from |-> normalize_currency(from),
                    to |-> normalize_currency(to), answer |-> r.answer,
                    stale |-> r.needs_update]
        /\ pre' = files[RatesJson]
        /\ UNCHANGED <<now, pc, snap, handle, seen, sched, app>>

GetRateDetailed ==
    \E from \in TypedCodes, to \in TypedCodes :
    \E r \in { get_rate_detailed(files, from, to) } :
        /\ files' = r.files
        /\ writes' = IF r.created THEN writes \cup { "in place" } ELSE writes
        /\ last' = [op |-> "get_rate_detailed", from |-> normalize_currency(from),
                    to |-> normalize_currency(to), answer |-> r.answer,
                    stale |-> FALSE]
        /\ pre' = files[RatesJson]
        /\ UNCHANGED <<now, pc, snap, handle, seen, sched, app>>

NextLookup == GetRate \/ GetRateDetailed

SpecLookup == InitLookup /\ [][NextLookup]_vars

IsLookup == last.op \in { "get_rate", "get_rate_detailed" }

\* the pairs stored in rates.json when the lookup started: those of a JSON
\* object with a "pairs" table, none otherwise
CachedPairs == IF pre.kind = "object" /\ pre.haspairs THEN pre.pairs ELSE EmptyPairs

Direct == PairKey(last.from, last.to)
Reverse == PairKey(last.to, last.from)

(* C7: for every stored pair A_B with rate r > 0, the lookup of (A, B)     *)
(* returns r and the lookup of (B, A), when B_A is not stored, returns 1/r. *)
LookupDirectAndInverse ==
    IsLookup =>
        /\ (Direct \in DOMAIN CachedPairs /\ IsPositive(CachedPairs[Direct].rate)) =>
              /\ last.answer.raised = "none"
              /\ last.answer.rate = CachedPairs[Direct].rate
        /\ (/\ Direct \notin DOMAIN CachedPairs
            /\ Reverse \in DOMAIN CachedPairs
            /\ IsPositive(CachedPairs[Reverse].rate)) =>
              /\ last.answer.raised = "none"
              /\ last.answer.rate = Inverse(CachedPairs[Reverse].rate)

\* BTC_USD is stored with rate 2 and USD_BTC is not: USD -> BTC was answered 1/2
LookupDirectAndInverseWitness ==
    /\ last.op = "get_rate"
    /\ last.from = "USD" /\ last.to = "BTC"
    /\ DOMAIN CachedPairs = { PairKey("BTC", "USD") }
    /\ CachedPairs[PairKey("BTC", "USD")].rate = Frac(2, 1)
    /\ last.answer.rate = Frac(1, 2)

(* C8: when neither FROM_TO nor TO_FROM is stored, also when the cache file *)
(* is empty, missing or corrupt, a lookup of two different currencies       *)
(* returns no rate and fails with RateUnavailable, whose message names      *)
(* FROM_TO and tells the caller to run an update.                           *)
MissingPairIsRateUnavailable ==
    (/\ IsLookup
     /\ IsCurrency(last.from) /\ IsCurrency(last.to) /\ last.from # last.to
     /\ Direct \notin DOMAIN CachedPairs
     /\ Reverse \notin DOMAIN CachedPairs) =>
        /\ last.answer.raised = "ApiRequestError"
        /\ last.answer.names = Direct
        /\ last.answer.advice = "update-rates"

(* C9: when FROM_TO is not stored and TO_FROM is stored with rate exactly  *)
(* 0, every lookup of (FROM, TO) fails with RateUnavailable and returns no  *)
(* rate. Stated here in its weakest reading: the lookup raises (whatever    *)
(* the class of the exception) instead of returning.                        *)
ZeroInverseIsRateUnavailable ==
    (/\ IsLookup
     /\ Direct \notin DOMAIN CachedPairs
     /\ Reverse \in DOMAIN CachedPairs
     /\ IsZero(CachedPairs[Reverse].rate)) =>
        last.answer.raised # "none"

(* C10: when FROM_TO and TO_FROM are both stored, the lookup of (FROM, TO) *)
(* returns the stored rate of FROM_TO and its updated_at; the inverse entry *)
(* is not used.                                                             *)
DirectAlwaysWins ==
    (/\ IsLookup
     /\ Direct \in DOMAIN CachedPairs
     /\ Reverse \in DOMAIN CachedPairs) =>
        /\ last.answer.raised = "none"
        /\ last.answer.rate = CachedPairs[Direct].rate
        /\ last.op = "get_rate_detailed" =>
              last.answer.updated_at = CachedPairs[Direct].updated_at

\* both directions are stored with rates that are not inverse to each other
DirectAlwaysWinsWitness ==
    /\ last.op = "get_rate_detailed"
    /\ Direct \in DOMAIN CachedPairs
    /\ Reverse \in DOMAIN CachedPairs
    /\ CachedPairs[Direct].rate = Frac(2, 1)
    /\ CachedPairs[Reverse].rate = Frac(2, 1)
    /\ CachedPairs[Direct].updated_at # CachedPairs[Reverse].updated_at
    /\ last.answer.rate = Frac(2, 1)

(* C11: for every code X of a known currency and every cache file (empty,  *)
(* missing, corrupt, out of date or populated) the lookup of (X, X) does   *)
(* not fail, returns rate 1.0, marks nothing as stale and leaves the cache  *)
(* file alone; the detailed lookup returns updated_at "N/A".                *)
SameCurrencyIsOne ==
    (IsLookup /\ IsCurrency(last.from) /\ last.from = last.to) =>
        /\ last.answer.raised = "none"
        /\ last.answer.rate = One
        /\ ~last.stale
        /\ files[RatesJson] = pre
        /\ last.op = "get_rate_detailed" => last.answer.updated_at = NA

\* BTC -> BTC was answered from a cache file that cannot be parsed
SameCurrencyIsOneWitness ==
    /\ last.op = "get_rate_detailed"
    /\ last.from = "BTC" /\ last.to = "BTC"
    /\ pre = Garbage
    /\ last.answer.rate = One
    /\ last.answer.updated_at = NA

\* the cache was refreshed less than RATES_TTL_SECONDS before the lookup
IsFresh ==
    /\ Truthy(pre.last_refresh)
    /\ AgeSeconds(now, pre.last_refresh) <= RATES_TTL_SECONDS

(* C12: a lookup of two different currencies marks the cache stale exactly *)
(* when the last_refresh of the snapshot in rates.json is absent or older   *)
(* than the TTL; a snapshot refreshed within the TTL is not marked stale.   *)
StaleFollowsLastRefresh ==
    (/\ IsLookup
     /\ IsCurrency(last.from) /\ IsCurrency(last.to) /\ last.from # last.to
     /\ pre.kind = "object" /\ pre.haspairs) =>
        (last.stale <=> ~IsFresh)

(* C5: every write of rates.json, by any component, goes through the       *)
(* write-temporary-file-then-rename path; the file is never created or      *)
(* rewritten in place.                                                      *)
AllWritesAreAtomic ==
    writes \subseteq { "rename" }

\* the lookup found nothing to answer with: the cache is not an object, holds
\* no pair, or lacks the pair asked for in both directions
NothingCached == Direct \notin DOMAIN CachedPairs /\ Reverse \notin DOMAIN CachedPairs

ZeroRateNeverDivides ==
    IsLookup =>
        /\ last.answer.raised # "ZeroDivisionError"
        /\ (/\ last.op = "get_rate_detailed"
            /\ IsCurrency(last.from) /\ IsCurrency(last.to) /\ last.from # last.to
            /\ Direct \in DOMAIN CachedPairs
            /\ IsZero(CachedPairs[Direct].rate)) =>
               /\ last.answer.raised = "none"
               /\ last.answer.rate = Zero
               /\ last.answer.rate_inverse = Zero

\* the detailed lookup of a pair stored with rate 0 has returned
ZeroRateNeverDividesWitness ==
    /\ last.op = "get_rate_detailed"
    /\ Direct \in DOMAIN CachedPairs
    /\ IsZero(CachedPairs[Direct].rate)
    /\ last.answer.raised = "none"
    /\ last.answer.rate_inverse = Zero
    /\ last.answer.updated_at = CachedPairs[Direct].updated_at

----------------------------------------------------------------------------
(* Two refreshes at once: the thread of RatesScheduler._loop and the thread *)
(* of the command loop both run upsert_pairs on the same RatesStorage       *)
(* paths. A thread holds its temporary file open between OpenTmp and        *)
(* WriteTmp; `handle` says under which name the bytes it writes to are      *)
(* found ("gone": under no name).                                           *)

Writers == { "timer", "manual" }

ConcKeys == { PairKey("BTC", "USD"), PairKey("EUR", "USD") }

InitConc ==
    /\ files = [AllMissing EXCEPT ![RatesJson] = SaveText(EmptySnapshot)]
    /\ now = 0
    /\ writes = {}
    /\ last = [op |-> "saves", failed |-> {}, alone |-> Writers]
    /\ pre = files[RatesJson]
    /\ pc = [t \in Writers |-> "idle"]
    /\ snap = [t \in Writers |-> Missing]
    /\ handle = [t \in Writers |-> "closed"]
    /\ seen = files[RatesJson]
    /\ sched = NoScheduler
    /\ app = SessionNotFollowed

\* the timestamps of the incoming pairs: an older and a newer one
ConcStamps == { _now_iso_z(0), _now_iso_z(1) }

\* the writers that are inside upsert_pairs
Active == { u \in Writers : pc[u] # "idle" }

\* upsert_pairs that merges into an empty table instead of the loaded one
BeginUpsertNoLoad(t) ==
    /\ pc[t] = "idle"
    /\ \E p \in ConcKeys, updated_at \in ConcStamps :
          LET new_pairs == [k \in { p } |-> [rate |-> Frac(2, 1),
                                              updated_at |-> updated_at,
                                              source |-> "CoinGecko"]]
              m == UpsertMerge(EmptyPairs, new_pairs)
          IN snap' = [snap EXCEPT ![t] = SaveText([pairs |-> m.table,
                                                   last_refresh |-> _now_iso_z(now)])]
    /\ pc' = [pc EXCEPT ![t] = "open"]
    /\ last' = [last EXCEPT !.alone = IF Active = {} THEN @ \cup { t }
                                      ELSE @ \ (Active \cup { t })]
    /\ UNCHANGED <<files, now, writes, pre, handle, seen, sched, app>>

\* upsert_pairs up to the call of save: load the cache, merge the new pairs;
\* last.alone keeps the writers whose latest upsert_pairs has run, so far,
\* while no other writer was inside upsert_pairs
BeginUpsert(t) ==
    /\ pc[t] = "idle"
    /\ \E p \in ConcKeys, updated_at \in ConcStamps :
          LET new_pairs == [k \in { p } |-> [rate |-> Frac(2, 1),
                                              updated_at |-> updated_at,
                                              source |-> "CoinGecko"]]
              m == UpsertMerge(load(files).pairs, new_pairs)
          IN snap' = [snap EXCEPT ![t] = SaveText([pairs |-> m.table,
                                                   last_refresh |-> _now_iso_z(now)])]
    /\ pc' = [pc EXCEPT ![t] = "open"]
    /\ last' = [last EXCEPT !.alone = IF Active = {} THEN @ \cup { t }
                                      ELSE @ \ (Active \cup { t })]
    /\ UNCHANGED <<files, now, writes, pre, handle, seen, sched, app>>

\* save: write_text opens rates.tmp, creating it or truncating it
OpenTmp(t) ==
    /\ pc[t] = "open"
    /\ files' = OpenW(files, RatesTmp)
    /\ handle' = [handle EXCEPT ![t] = RatesTmp]
    /\ pc' = [pc EXCEPT ![t] = "write"]
    /\ UNCHANGED <<now, writes, last, pre, snap, seen, sched, app>>

\* the bytes found after `text` was written from offset 0 over `old`: with
\* other bytes already there, the longer of the two decides
Overwrite(old, text) ==
    IF old = EmptyText \/ old = text THEN { text } ELSE { text, Mixed }

\* save: write_text writes the text through its handle and closes it
WriteTmp(t) ==
    /\ pc[t] = "write"
    /\ IF handle[t] = "gone"
       THEN files' = files
       ELSE \E new \in Overwrite(files[handle[t]], snap[t]) :
               files' = [files EXCEPT ![handle[t]] = new]
    /\ handle' = [handle EXCEPT ![t] = "closed"]
    /\ pc' = [pc EXCEPT ![t] = "rename"]
    /\ UNCHANGED <<now, writes, last, pre, snap, seen, sched, app>>

\* where an open handle is found after src was renamed to dst
Moved(h, src, dst) == IF h = src THEN dst ELSE IF h = dst THEN "gone" ELSE h

\* save: tmp_path.rename(self.path); FileNotFoundError without rates.tmp
RenameTmp(t) ==
    /\ pc[t] = "rename"
    /\ IF Exists(files, RatesTmp)
       THEN /\ files' = Rename(files, RatesTmp, RatesJson)
            /\ handle' = [u \in Writers |-> Moved(handle[u], RatesTmp, RatesJson)]
            /\ writes' = writes \cup { "rename" }
            /\ last' = last
       ELSE /\ last' = [last EXCEPT !.failed = @ \cup { t }]
            /\ UNCHANGED <<files, handle, writes>>
    /\ pc' = [pc EXCEPT ![t] = "idle"]
    /\ UNCHANGED <<now, pre, snap, seen, sched, app>>

\* a reader (load, read_json) reads rates.json
Read ==
    /\ seen' = files[RatesJson]
    /\ UNCHANGED <<files, now, writes, last, pre, pc, snap, handle, sched, app>>

NextConc ==
    \/ \E t \in Writers : BeginUpsert(t) \/ OpenTmp(t) \/ WriteTmp(t) \/ RenameTmp(t)
    \/ Read

SpecConc == InitConc /\ [][NextConc]_vars

(* C4: a reader of rates.json running concurrently with the saves of the   *)
(* background refresh and of a manual refresh reads the complete previous  *)
(* snapshot or a complete snapshot written by one save, never a partially  *)
(* written or mixed file.                                                   *)
ReaderSeesCompleteSnapshot ==
    seen = pre \/ seen.kind = "object"

(* C16: when the background refresh and a manual refresh overlap, rates.json *)
(* holds, once both have finished, exactly the complete snapshot one of the  *)
(* two saved: the one whose write landed last.                               *)
LastWriterWins ==
    (\A t \in Writers : pc[t] = "idle" /\ snap[t] # Missing) =>
        files[RatesJson] \in { snap[t] : t \in Writers }

\* in the step taken, every pair stored in rates.json stays stored and its
\* updated_at does not go down
Kept ==
    \A p \in DOMAIN StoredAfter :
        /\ p \in DOMAIN StoredAfter'
        /\ ~StrGreater(StoredAfter[p].updated_at, StoredAfter'[p].updated_at)

(* C27 as stated: across any sequence of upserts, overlapping ones          *)
(* included, a pair once stored in rates.json is never removed and its      *)
(* updated_at never decreases; stated here for the steps in which a writer  *)
(* renames the temporary file holding its own complete snapshot, which is   *)
(* where it fails without the help of a damaged or missing file.            *)
StoredPairsAreKept ==
    [][(\E t \in Writers : /\ pc[t] = "rename" /\ pc'[t] = "idle"
                           /\ files[RatesTmp] = snap[t]
                           /\ files'[RatesJson] = snap[t]) => Kept]_vars

(* C27: across any sequence of upserts none of which runs while another     *)
(* writer is inside upsert_pairs, a pair once stored in rates.json is never *)
(* removed and its updated_at never decreases.                              *)
StoredPairsAreKeptWithoutOverlap ==
    [][(Active \subseteq last.alone) => Kept]_vars

\* both writers have stored a pair, one after the other, each with no other
\* upsert_pairs running: both pairs are stored, with different timestamps
StoredPairsAreKeptWithoutOverlapWitness ==
    /\ Active = {}
    /\ last.alone = Writers
    /\ last.failed = {}
    /\ \A t \in Writers : snap[t] # Missing
    /\ DOMAIN StoredAfter = ConcKeys
    /\ \E t \in Writers : files[RatesJson] = snap[t]
    /\ \E p \in ConcKeys, q \in ConcKeys :
          StrGreater(StoredAfter[p].updated_at, StoredAfter[q].updated_at)

(* C29: when the save of the background refresh and the save of a manual    *)
(* refresh overlap, both complete without raising: no writer's rename of    *)
(* rates.tmp fails because the other writer has renamed it away.            *)
OverlappingSavesBothComplete ==
    last.failed = {}

----------------------------------------------------------------------------
(* cli/interface.py : run_cli, the command loop. One action is one turn of  *)
(* `while True`: read a line, run the command, print. pc.cli tells whether  *)
(* the loop is still reading ("prompt"), has returned or was left by an     *)
(* exception.                                                               *)

Cli == { "cli" }

InitCli ==
    /\ files = AllMissing
    /\ now = 0
    /\ writes = {}
    /\ last = [op |-> "init"]
    /\ pre = Missing
    /\ pc = [t \in Cli |-> "prompt"]
    /\ snap = NoThreads
    /\ handle = NoThreads
    /\ seen = Missing
    /\ sched = NoScheduler
    /\ app = SessionNotFollowed

\* what a turn of the loop leaves behind: the command, whether it failed,
\* whether the loop printed its error text, and the exception that left
\* run_cli ("none": the loop went on or returned)
Turn(cmd, failed, printed, escaped) ==
    [op |-> cmd, failed |-> failed, printed |-> printed, escaped |-> escaped]

\* the loop after a turn
After(escaped) == [t \in Cli |-> IF escaped = "none" THEN "prompt" ELSE "raised"]

\* _safe_input raises EOFError or KeyboardInterrupt: "Выход." and return
CmdEof ==
    /\ pc.cli = "prompt"
    /\ pc' = [t \in Cli |-> "returned"]
    /\ last' = Turn("eof", FALSE, FALSE, "none")
    /\ UNCHANGED <<files, now, writes, pre, snap, handle, seen, sched, app>>

\* exit: "Выход." and return
CmdExit ==
    /\ pc.cli = "prompt"
    /\ pc' = [t \in Cli |-> "returned"]
    /\ last' = Turn("exit", FALSE, FALSE, "none")
    /\ UNCHANGED <<files, now, writes, pre, snap, handle, seen, sched, app>>

\* an empty line, help, a line shlex cannot split, an unknown command: the
\* loop prints its text (nothing for the empty line) and continues
PlainLines == { "", "help", "unbalanced quote", "unknown" }

CmdPlain ==
    /\ pc.cli = "prompt"
    /\ \E line \in PlainLines :
          last' = Turn(line, line \in { "unbalanced quote", "unknown" },
                       line \in { "unbalanced quote", "unknown" }, "none")
    /\ UNCHANGED <<files, now, writes, pre, pc, snap, handle, seen, sched, app>>

\* the except clauses that close the block of the wallet commands and of
\* get-rate: the last one is `except Exception`, so every exception class
\* ends in a printed line and `continue`
CaughtByCommandBlock(exc) == TRUE

\* what register, login, logout, show-portfolio, buy and sell end with: they
\* return, or raise one of the exceptions of core/usecases.py, or any other
UseCaseOutcomes ==
    { "none", "InsufficientFundsError", "CurrencyNotFoundError", "ApiRequestError",
      "NotLoggedInError", "AuthError", "ValueError", "KeyError" }

WalletCommands == { "register", "login", "logout", "show-portfolio", "buy", "sell" }

CmdWallet ==
    /\ pc.cli = "prompt"
    /\ \E cmd \in WalletCommands, exc \in UseCaseOutcomes :
          last' = Turn(cmd, exc # "none", exc # "none" /\ CaughtByCommandBlock(exc),
                       IF CaughtByCommandBlock(exc) THEN "none" ELSE exc)
    /\ UNCHANGED <<files, now, writes, pre, pc, snap, handle, seen, sched, app>>

\* get-rate --from X [--to Y]: get_rate_detailed inside the command block
CmdGetRate ==
    /\ pc.cli = "prompt"
    /\ \E from \in TypedCodes, to \in TypedCodes :
       \E r \in { get_rate_detailed(files, from, to) } :
          /\ files' = r.files
          /\ writes' = IF r.created THEN writes \cup { "in place" } ELSE writes
          /\ last' = Turn("get-rate", r.answer.raised # "none",
                          /\ r.answer.raised # "none"
                          /\ CaughtByCommandBlock(r.answer.raised),
                          IF CaughtByCommandBlock(r.answer.raised) THEN "none"
                          ELSE r.answer.raised)
          /\ pre' = files[RatesJson]
    /\ UNCHANGED <<now, pc, snap, handle, seen, sched, app>>

\* the one except clause of the update-rates command names ApiRequestError
\* of core/exceptions.py, a subclass of WalletAppError; the ApiRequestError
\* of parser_service/api_clients.py is another class, caught in run_update
CaughtByUpdateRates(exc) == exc = "core.ApiRequestError"

\* (args.get("source") or "").strip().lower() or None
CliSources == { Lower(src) : src \in SourceFilters }

\* update-rates [--source S]: _init_parser() and run_update(source). A client
\* that raises ApiRequestError is reported by run_update itself, through its
\* log = print
CmdUpdateRates ==
    /\ pc.cli = "prompt"
    /\ HistoryLen(files) <= MaxHistory
    /\ \E source \in CliSources :
       \E key \in IF IsChosen(source, "exchangerate") THEN ApiKeys ELSE { None },
          cg \in IF IsChosen(source, "coingecko") THEN Responses({ "bitcoin" })
                 ELSE { NetworkError },
          er \in IF IsChosen(source, "exchangerate") THEN Responses({ "EUR" })
                 ELSE { NetworkError } :
       \E r \in { run_update(files, source, ParserConfig(key),
                             [c \in ClientNames |-> IF c = "coingecko" THEN cg ELSE er],
                             now, [c \in ClientNames |-> now]) } :
          /\ files' = r.files
          /\ writes' = IF r.raised = "none" THEN writes \cup { "rename" } ELSE writes
          /\ last' = Turn("update-rates", r.raised # "none" \/ r.errors > 0,
                          \/ r.raised = "none" /\ r.errors > 0
                          \/ r.raised # "none" /\ CaughtByUpdateRates(r.raised),
                          IF r.raised = "none" \/ CaughtByUpdateRates(r.raised)
                          THEN "none" ELSE r.raised)
          /\ pc' = After(IF r.raised = "none" \/ CaughtByUpdateRates(r.raised)
                         THEN "none" ELSE r.raised)
          /\ pre' = files[RatesJson]
    /\ UNCHANGED <<now, snap, handle, seen, sched, app>>

\* what the user passes as --top, and whether int() takes it
TopArgs == { "", "2", "many" }

\* show-rates: storage.load() and the listing, inside try with
\* `except ValueError` and `except Exception`
CmdShowRates ==
    /\ pc.cli = "prompt"
    /\ \E top \in TopArgs :
          last' = Turn("show-rates",
                       load(files).raised # "none" \/ top = "many",
                       load(files).raised # "none" \/ top = "many", "none")
    /\ pre' = files[RatesJson]
    /\ UNCHANGED <<files, now, writes, pc, snap, handle, seen, sched, app>>

NextCli ==
    \/ CmdEof \/ CmdExit \/ CmdPlain \/ CmdWallet
    \/ CmdGetRate \/ CmdUpdateRates \/ CmdShowRates

SpecCli == InitCli /\ [][NextCli]_vars

(* C17: no failure of a command ends the command loop: whatever command    *)
(* fails, update-rates with a failing or an unconfigured provider too, the  *)
(* failure is printed as error text and the loop reads the next command;    *)
(* the loop ends only on exit or at the end of the input.                   *)
LoopSurvivesEveryFailure ==
    /\ pc.cli # "prompt" => last.op \in { "exit", "eof" }
    /\ (last.op # "init" /\ last.failed) => (last.printed /\ last.escaped = "none")

----------------------------------------------------------------------------
(* parser_service/scheduler.py : one RatesScheduler. The thread "main" calls *)
(* start() and stop(); the thread "loop" runs _loop, and pc.loop is its     *)
(* position: at the test of `while`, inside run_update, at the test inside  *)
(* `for`, inside time.sleep(1), or done (the thread has ended).             *)

\* interval_seconds as passed to the scheduler checked here (the dataclass
\* default is 3600)
interval_seconds == 2

\* the fields after construction; i is the number of turns of the `for` loop
\* that _loop has completed since the last cycle
NewScheduler == [constructed |-> TRUE, _stop |-> FALSE, _thread |-> "None", i |-> 0]

\* self._thread and self._thread.is_alive()
IsAlive == sched._thread # "None" /\ pc.loop \notin { "unstarted", "done" }

InitSched ==
    /\ files = AllMissing
    /\ now = 0
    /\ writes = {}
    /\ last = [op |-> "init"]
    /\ pre = Missing
    /\ pc = [main |-> "idle", loop |-> "unstarted"]
    /\ snap = NoThreads
    /\ handle = NoThreads
    /\ seen = Missing
    /\ sched = NewScheduler
    /\ app = SessionNotFollowed

\* start(): nothing when the thread is alive; else clear the flag and start
\* a new thread on _loop
Start ==
    /\ pc.main = "idle"
    /\ IF IsAlive
       THEN UNCHANGED <<pc, sched>>
       ELSE /\ sched' = [sched EXCEPT !._stop = FALSE, !._thread = "thread", !.i = 0]
            /\ pc' = [pc EXCEPT !.loop = "while"]
    /\ last' = [op |-> "start", at |-> pc.loop]
    /\ UNCHANGED <<files, now, writes, pre, snap, handle, seen, app>>

\* stop() up to the join: set the flag; last.at keeps where the loop was
StopSet ==
    /\ pc.main = "idle"
    /\ sched' = [sched EXCEPT !._stop = TRUE]
    /\ pc' = [pc EXCEPT !.main = IF sched._thread # "None" THEN "join" ELSE "idle"]
    /\ last' = [op |-> "stop", at |-> pc.loop]
    /\ UNCHANGED <<files, now, writes, pre, snap, handle, seen, app>>

\* stop(): join(timeout=2) returns, because the thread has ended or because
\* the two seconds are over; with the flag set, only a loop inside run_update
\* lasts that long (a request may take REQUEST_TIMEOUT seconds, a sleep one)
JoinReturns ==
    /\ pc.main = "join"
    /\ pc.loop \in { "unstarted", "done", "run_update" }
    /\ pc' = [pc EXCEPT !.main = "idle"]
    /\ UNCHANGED <<files, now, writes, last, pre, snap, handle, seen, sched, app>>

WhileTestNoCheck ==
    /\ pc.loop = "while"
    /\ pc' = [pc EXCEPT !.loop = "run_update"]
    /\ UNCHANGED <<files, now, writes, last, pre, snap, handle, seen, sched, app>>

\* _loop: `while not self._stop.is_set()`; passing the test starts a cycle
WhileTest ==
    /\ pc.loop = "while"
    /\ pc' = [pc EXCEPT !.loop = IF sched._stop THEN "done" ELSE "run_update"]
    /\ UNCHANGED <<files, now, writes, last, pre, snap, handle, seen, sched, app>>

\* the answers the providers give to one cycle: a failure or a body with a
\* rate for every key; once the history log holds more than MaxHistory
\* entries they only fail, which keeps the files bounded without holding up
\* the loop
CycleResponses(keys) ==
    IF HistoryLen(files) <= MaxHistory
    THEN { NetworkError, Ok([k \in keys |-> Num(Frac(2, 1))]) }
    ELSE { NetworkError }

\* _loop without its `try ... except Exception: pass`: an exception of
\* run_update ends the thread
CycleUncaught ==
    /\ pc.loop = "run_update"
    /\ \E key \in ApiKeys, cg \in CycleResponses({ "bitcoin" }),
          er \in CycleResponses({ "EUR" }) :
       \E r \in { run_update(files, "", ParserConfig(key),
                             [c \in ClientNames |-> IF c = "coingecko" THEN cg ELSE er],
                             now, [c \in ClientNames |-> now]) } :
          /\ files' = r.files
          /\ writes' = IF r.raised = "none" THEN writes \cup { "rename" } ELSE writes
          /\ pre' = files[RatesJson]
          /\ pc' = [pc EXCEPT !.loop = IF r.raised = "none" THEN "for" ELSE "done"]
    /\ sched' = [sched EXCEPT !.i = 0]
    /\ UNCHANGED <<now, last, snap, handle, seen, app>>
\* _loop: self.updater.run_update() inside `try ... except Exception: pass`;
\* whether it returns or raises, the loop goes on to the `for` loop
Cycle ==
    /\ pc.loop = "run_update"
    /\ \E key \in ApiKeys, cg \in CycleResponses({ "bitcoin" }),
          er \in CycleResponses({ "EUR" }) :
       \E r \in { run_update(files, "", ParserConfig(key),
                             [c \in ClientNames |-> IF c = "coingecko" THEN cg ELSE er],
                             now, [c \in ClientNames |-> now]) } :
          /\ files' = r.files
          /\ writes' = IF r.raised = "none" THEN writes \cup { "rename" } ELSE writes
          /\ pre' = files[RatesJson]
    /\ pc' = [pc EXCEPT !.loop = "for"]
    /\ sched' = [sched EXCEPT !.i = 0]
    /\ UNCHANGED <<now, last, snap, handle, seen, app>>

\* _loop: the head of `for _ in range(self.interval_seconds)` and the test
\* `if self._stop.is_set(): return` of one turn
ForTest ==
    /\ pc.loop = "for"
    /\ pc' = [pc EXCEPT !.loop = IF sched.i = interval_seconds THEN "while"
                                 ELSE IF sched._stop THEN "done"
                                 ELSE "sleep"]
    /\ UNCHANGED <<files, now, writes, last, pre, snap, handle, seen, sched, app>>

\* _loop: time.sleep(1) returns; the clock is not followed beyond MaxTime
Sleep ==
    /\ pc.loop = "sleep"
    /\ now' = IF now < MaxTime THEN now + 1 ELSE now
    /\ sched' = [sched EXCEPT !.i = @ + 1]
    /\ pc' = [pc EXCEPT !.loop = "for"]
    /\ UNCHANGED <<files, writes, last, pre, snap, handle, seen, app>>

NextSched ==
    \/ Start \/ StopSet \/ JoinReturns
    \/ WhileTest \/ Cycle \/ ForTest \/ Sleep

\* the loop thread is a running thread: each of its steps is taken in the end
\* (run_update returns or raises, every request being bounded by
\* REQUEST_TIMEOUT; time.sleep(1) returns)
SpecSched ==
    /\ InitSched /\ [][NextSched]_vars
    /\ WF_vars(WhileTest) /\ WF_vars(Cycle) /\ WF_vars(ForTest) /\ WF_vars(Sleep)

(* C18: once the stop flag is set the background loop starts no further    *)
(* refresh cycle and terminates: with the flag set it does not pass the     *)
(* test before a cycle, it does not go to sleep again in the wait between   *)
(* two cycles, and its thread ends; at most the cycle in flight completes.  *)
StopEndsTheLoop ==
    /\ [][sched._stop => ~(pc.loop # "run_update" /\ pc'.loop = "run_update")]_vars
    /\ [][sched._stop => ~(pc.loop # "sleep" /\ pc'.loop = "sleep")]_vars
    /\ (sched._stop /\ IsAlive) ~> (pc.loop = "done")

\* stop() came while a cycle was in flight; the cycle has completed and the
\* loop has ended with the flag still set
StopEndsTheLoopWitness ==
    /\ last.op = "stop"
    /\ last.at = "run_update"
    /\ sched._stop
    /\ pc.loop = "done"
    /\ files[RatesJson].kind = "object"

(* C22: while the scheduler is started and its stop flag is not set, the    *)
(* loop keeps running run_update once per interval: every cycle ends,       *)
(* whether run_update returned or raised, with the loop in its wait; the    *)
(* wait is left for the next cycle only after interval_seconds sleeps; and  *)
(* from the wait the next cycle is started in the end, unless the stop flag *)
(* is set first.                                                            *)
LoopKeepsCycling ==
    /\ (pc.loop = "run_update") ~> (pc.loop = "for" /\ sched.i = 0)
    /\ [][(pc.loop = "for" /\ pc'.loop = "while") => sched.i = interval_seconds]_vars
    /\ (pc.loop \in { "for", "sleep", "while" } /\ ~sched._stop) ~>
           (sched._stop \/ pc.loop = "run_update")

\* no run_update has returned yet (the first cycle raised), the wait of
\* interval_seconds sleeps is over and the next cycle is running
LoopKeepsCyclingWitness ==
    /\ pc.loop = "run_update"
    /\ sched.i = interval_seconds
    /\ ~sched._stop
    /\ writes = {}
    /\ now > 0

(* C31: whenever the last call made on the scheduler is a start() that has  *)
(* returned, a background loop is running and its stop flag is clear, so    *)
(* that it will run a refresh cycle; also when the stop() before it         *)
(* returned while the previous loop was still inside run_update.            *)
StartLeavesLoopRunning ==
    last.op = "start" => (IsAlive /\ ~sched._stop)

----------------------------------------------------------------------------
(* fetch_rates of the two clients on the configuration ParserConfig         *)
(* declares: three crypto ids, three fiat codes                             *)

ParserConfigDeclared(key) ==
    [EXCHANGERATE_API_KEY |-> key,
     BASE_FIAT_CURRENCY |-> "USD",
     FIAT_CURRENCIES |-> { "EUR", "GBP", "RUB" },
     CRYPTO_ID_MAP |-> [c \in { "BTC", "ETH", "SOL" } |->
                          IF c = "BTC" THEN "bitcoin"
                          ELSE IF c = "ETH" THEN "ethereum" ELSE "solana"]]

\* the keys under which a provider's body holds the rates of a client
BodyKeys(client, config) ==
    IF client = "coingecko"
    THEN { config.CRYPTO_ID_MAP[c] : c \in DOMAIN config.CRYPTO_ID_MAP }
    ELSE config.FIAT_CURRENCIES

\* the currency code a key of the body stands for
CodeOf(client, config, k) ==
    IF client = "coingecko"
    THEN CHOOSE c \in DOMAIN config.CRYPTO_ID_MAP : config.CRYPTO_ID_MAP[c] = k
    ELSE k

InitFetch ==
    /\ files = AllMissing
    /\ now = 0
    /\ writes = {}
    /\ last = [op |-> "init"]
    /\ pre = Missing
    /\ pc = NoThreads
    /\ snap = NoThreads
    /\ handle = NoThreads
    /\ seen = Missing
    /\ sched = NoScheduler
    /\ app = SessionNotFollowed

\* one call of client.fetch_rates(): the environment supplies the API key and
\* the provider's answer
FetchRates ==
    /\ \E client \in ClientNames, key \in ApiKeys :
       \E resp \in Responses(BodyKeys(client, ParserConfigDeclared(key))) :
          last' = [op |-> "fetch_rates", client |-> client, key |-> key,
                   resp |-> resp,
                   result |-> fetch_rates(ClientNamed(client), ParserConfigDeclared(key),
                                          [c \in ClientNames |-> resp])]
    /\ UNCHANGED <<files, now, writes, pre, pc, snap, handle, seen, sched, app>>

NextFetch == FetchRates

SpecFetch == InitFetch /\ [][NextFetch]_vars

\* an entry of the body that is missing, not a number, or zero
IsBadEntry(v) == IF v.t = "num" THEN IsZero(v.v) ELSE TRUE

BadKeys == { k \in DOMAIN last.resp.body : IsBadEntry(last.resp.body[k]) }

(* C20: for each client, crypto and fiat, when one entry of an otherwise   *)
(* well-formed provider response is bad (missing, not a number, or zero),   *)
(* fetch_rates does not raise: it skips that entry and returns the mapping  *)
(* of all the other entries.                                                *)
OneBadEntryIsSkipped ==
    (/\ last.op = "fetch_rates"
     /\ last.client = "exchangerate" => Truthy(last.key)
     /\ last.resp.kind = "ok"
     /\ Cardinality(BadKeys) = 1) =>
        /\ last.result.raised = "none"
        /\ DOMAIN last.result.rates =
              { PairKey(CodeOf(last.client, ParserConfigDeclared(last.key), k), "USD") :
                  k \in DOMAIN last.resp.body \ BadKeys }

----------------------------------------------------------------------------
(* Two RatesScheduler objects built with the defaults of the dataclass. The *)
(* default of the field _stop is evaluated once, in the class body, so both *)
(* objects hold the same threading.Event; _thread and the loop position are *)
(* per object. The two loops call run_update on the same files; a cycle is  *)
(* taken as one step here, the interleaving of two saves being the subject  *)
(* of SpecConc.                                                             *)

Instances == { "first", "second" }

\* the fields of the two objects after construction: _stop is the one Event
\* of the class; i[s] counts the turns of the `for` loop of s
TwoSchedulers ==
    [constructed |-> TRUE, _stop |-> FALSE,
     _thread |-> [s \in Instances |-> "None"], i |-> [s \in Instances |-> 0]]

\* self._thread and self._thread.is_alive(), for the object s
IsAliveOf(s) == sched._thread[s] # "None" /\ pc[s] \notin { "unstarted", "done" }

\* last.requested: the objects on which stop() was called and start() has
\* not started a new thread since
InitTwo ==
    /\ files = AllMissing
    /\ now = 0
    /\ writes = {}
    /\ last = [op |-> "init", requested |-> {}]
    /\ pre = Missing
    /\ pc = [k \in Instances \cup { "main" } |-> IF k = "main" THEN "idle" ELSE "unstarted"]
    /\ snap = NoThreads
    /\ handle = NoThreads
    /\ seen = Missing
    /\ sched = TwoSchedulers
    /\ app = SessionNotFollowed

\* s.start()
StartOf(s) ==
    /\ pc.main = "idle"
    /\ IF IsAliveOf(s)
       THEN /\ UNCHANGED <<pc, sched>>
            /\ last' = [op |-> "start", on |-> s, requested |-> last.requested]
       ELSE /\ sched' = [sched EXCEPT !._stop = FALSE, !._thread[s] = "thread",
                                      !.i[s] = 0]
            /\ pc' = [pc EXCEPT ![s] = "while"]
            /\ last' = [op |-> "start", on |-> s, requested |-> last.requested \ { s }]
    /\ UNCHANGED <<files, now, writes, pre, snap, handle, seen, app>>

\* s.stop() up to the join
StopOf(s) ==
    /\ pc.main = "idle"
    /\ sched' = [sched EXCEPT !._stop = TRUE]
    /\ pc' = [pc EXCEPT !.main = IF sched._thread[s] # "None" THEN "join" ELSE "idle"]
    /\ last' = [op |-> "stop", on |-> s, requested |-> last.requested \cup { s }]
    /\ UNCHANGED <<files, now, writes, pre, snap, handle, seen, app>>

\* s.stop(): join(timeout=2) returns
JoinOf ==
    /\ pc.main = "join"
    /\ pc' = [pc EXCEPT !.main = "idle"]
    /\ UNCHANGED <<files, now, writes, last, pre, snap, handle, seen, sched, app>>

\* _loop of s: `while not self._stop.is_set()`
WhileTestOf(s) ==
    /\ pc[s] = "while"
    /\ pc' = [pc EXCEPT ![s] = IF sched._stop THEN "done" ELSE "run_update"]
    /\ UNCHANGED <<files, now, writes, last, pre, snap, handle, seen, sched, app>>

\* _loop of s: self.updater.run_update() inside `try ... except Exception`;
\* the providers are out of reach in these runs, and the API key is set or
\* not
CycleOf(s) ==
    /\ pc[s] = "run_update"
    /\ \E key \in ApiKeys :
       \E r \in { run_update(files, "", ParserConfig(key),
                             [c \in ClientNames |-> NetworkError],
                             now, [c \in ClientNames |-> now]) } :
          /\ files' = r.files
          /\ writes' = IF r.raised = "none" THEN writes \cup { "rename" } ELSE writes
          /\ pre' = files[RatesJson]
    /\ pc' = [pc EXCEPT ![s] = "for"]
    /\ sched' = [sched EXCEPT !.i[s] = 0]
    /\ UNCHANGED <<now, last, snap, handle, seen, app>>

\* _loop of s: the head of the `for` loop and its test of the flag
ForTestOf(s) ==
    /\ pc[s] = "for"
    /\ pc' = [pc EXCEPT ![s] = IF sched.i[s] = interval_seconds THEN "while"
                               ELSE IF sched._stop THEN "done"
                               ELSE "sleep"]
    /\ UNCHANGED <<files, now, writes, last, pre, snap, handle, seen, sched, app>>

\* _loop of s: time.sleep(1) returns; the clock is not followed beyond MaxTime
SleepOf(s) ==
    /\ pc[s] = "sleep"
    /\ now' = IF now < MaxTime THEN now + 1 ELSE now
    /\ sched' = [sched EXCEPT !.i[s] = @ + 1]
    /\ pc' = [pc EXCEPT ![s] = "for"]
    /\ UNCHANGED <<files, writes, last, pre, snap, handle, seen, app>>

NextTwo ==
    \/ \E s \in Instances : StartOf(s) \/ StopOf(s)
    \/ JoinOf
    \/ \E s \in Instances : WhileTestOf(s) \/ CycleOf(s) \/ ForTestOf(s) \/ SleepOf(s)

SpecTwo == InitTwo /\ [][NextTwo]_vars

(* C30: scheduler instances are independent: the loop of a scheduler ends   *)
(* only after stop() was called on that scheduler, not because stop() was   *)
(* called on another one; and a stop request made on a scheduler whose loop *)
(* is running stays in force (its stop flag is set) until start() starts    *)
(* that scheduler again, whatever start() is called on another one.         *)
SchedulersAreIndependent ==
    \A s \in Instances :
        /\ pc[s] = "done" => s \in last.requested
        /\ (s \in last.requested /\ IsAliveOf(s)) => sched._stop

----------------------------------------------------------------------------
(* core/usecases.py : WalletApp, the wallet ledger. users.json holds a list *)
(* of users, portfolios.json a list of {user_id, wallets}. A wallet is      *)
(* stored either as a dict {"balance": b}, as buy and sell write it, or as  *)
(* a bare number, as register writes it.                                    *)

UsersJson == "users.json"
PortfoliosJson == "portfolios.json"
WalletFiles == { RatesJson, UsersJson, PortfoliosJson }

\* float arithmetic on exact fractions with a positive denominator
RECURSIVE GCD(_, _)
GCD(a, b) == IF b = 0 THEN a ELSE GCD(b, a % b)
Abs(n) == IF n < 0 THEN 0 - n ELSE n
Norm(n, d) == IF n = 0 THEN Zero ELSE Frac(n \div GCD(Abs(n), d), d \div GCD(Abs(n), d))
\* float('nan'): every comparison with it is False, every sum or product is nan
NaN == Frac(0, 0)
IsNaN(a) == a.d = 0
Mul(a, b) == IF IsNaN(a) \/ IsNaN(b) THEN NaN ELSE Norm(a.n * b.n, a.d * b.d)
Add(a, b) == IF IsNaN(a) \/ IsNaN(b) THEN NaN ELSE Norm(a.n * b.d + b.n * a.d, a.d * b.d)
Sub(a, b) == IF IsNaN(a) \/ IsNaN(b) THEN NaN ELSE Norm(a.n * b.d - b.n * a.d, a.d * b.d)
\* a < b and a <= b of floats
Less(a, b) == ~IsNaN(a) /\ ~IsNaN(b) /\ a.n * b.d < b.n * a.d
LessEq(a, b) == ~IsNaN(a) /\ ~IsNaN(b) /\ a.n * b.d <= b.n * a.d

\* {"balance": b}
BalanceDict(b) == [balance |-> b]
\* isinstance(w, dict), for a stored wallet w
IsDict(w) == "balance" \in DOMAIN w

\* INITIAL_USD_BALANCE of the settings, as configured for the runs checked
\* here (DEFAULTS sets 50000.0; [tool.valutatrade] overrides it)
INITIAL_USD_BALANCE == Frac(2, 1)

\* hashlib.sha256((password + salt).encode()).hexdigest(): taken as free of
\* collisions
Sha256(password, salt) == << "sha256", password, salt >>

\* the names a caller may type, and str.strip() on them
TypedNames == { "", "alice", " alice", "bob" }
Strip(name) == IF name = " alice" THEN "alice" ELSE name

\* the passwords a caller may type: texts of 0, 3 and 4 characters
TypedPasswords == { << >>, << 1, 2, 3 >>, << 1, 2, 3, 4 >> }

\* uuid.uuid4().hex[:8]
Salts == { "s1" }

\* read_json(path, default = []) as load_users and load_portfolios call it
read_list(f, name) ==
    IF ~Exists(f, name)
    THEN [raised |-> "none", data |-> << >>,
          files |-> write_json(f, name, DumpsList(<< >>))]
    ELSE IF ~IsJson(f[name])
    THEN [raised |-> "JSONDecodeError", data |-> << >>, files |-> f]
    ELSE IF f[name].kind # "list"
    THEN [raised |-> "AttributeError", data |-> << >>, files |-> f]
    ELSE [raised |-> "none", data |-> f[name].items, files |-> f]

\* next(x for x in items if x.get(key) == value, None): its index, 0 for None
IndexOf(items, key, value) ==
    IF \E i \in DOMAIN items : items[i][key] = value
    THEN CHOOSE i \in DOMAIN items :
             /\ items[i][key] = value
             /\ \A j \in DOMAIN items : items[j][key] = value => i <= j
    ELSE 0

\* max((int(u.get("user_id", 0)) for u in users), default=0)
HighestUserId(users) ==
    IF users = << >> THEN 0
    ELSE CHOOSE m \in { users[i].user_id : i \in DOMAIN users } :
             \A i \in DOMAIN users : users[i].user_id <= m

\* what a call of the WalletApp ends with
Outcome(exc, f, value) == [raised |-> exc, files |-> f, value |-> value]

\* WalletApp.register that does not test whether the name is taken
register_any_name(f, username, password, salt) ==
    LET name == Strip(username)
        users == read_list(f, UsersJson)
        new_id == HighestUserId(users.data) + 1
        user == [user_id |-> new_id, username |-> name,
                 hashed_password |-> Sha256(password, salt), salt |-> salt]
        f2 == write_json(users.files, UsersJson, DumpsList(Append(users.data, user)))
        portfolios == read_list(f2, PortfoliosJson)
        pf == [user_id |-> new_id,
               wallets |-> [c \in { "USD" } |-> INITIAL_USD_BALANCE]]
    IN IF name = "" THEN Outcome("ValueError", f, 0)
       ELSE IF Len(password) < 4 THEN Outcome("ValueError", f, 0)
       ELSE IF users.raised # "none" THEN Outcome(users.raised, users.files, 0)
       ELSE IF portfolios.raised # "none" THEN Outcome(portfolios.raised, portfolios.files, 0)
       ELSE Outcome("none",
                    write_json(portfolios.files, PortfoliosJson,
                               DumpsList(Append(portfolios.data, pf))),
                    new_id)

\* WalletApp.register: users.json is saved before portfolios.json is loaded
register(f, username, password, salt) ==
    LET name == Strip(username)
        users == read_list(f, UsersJson)
        new_id == HighestUserId(users.data) + 1
        user == [user_id |-> new_id, username |-> name,
                 hashed_password |-> Sha256(password, salt), salt |-> salt]
        f2 == write_json(users.files, UsersJson, DumpsList(Append(users.data, user)))
        portfolios == read_list(f2, PortfoliosJson)
        pf == [user_id |-> new_id,
               wallets |-> [c \in { "USD" } |-> INITIAL_USD_BALANCE]]
    IN IF name = "" THEN Outcome("ValueError", f, 0)
       ELSE IF Len(password) < 4 THEN Outcome("ValueError", f, 0)
       ELSE IF users.raised # "none" THEN Outcome(users.raised, users.files, 0)
       ELSE IF IndexOf(users.data, "username", name) # 0
       THEN Outcome("ValueError", users.files, 0)
       ELSE IF portfolios.raised # "none" THEN Outcome(portfolios.raised, portfolios.files, 0)
       ELSE Outcome("none",
                    write_json(portfolios.files, PortfoliosJson,
                               DumpsList(Append(portfolios.data, pf))),
                    new_id)

\* WalletApp.login: value is the user id the session is set to
login(f, username, password) ==
    LET name == Strip(username)
        users == read_list(f, UsersJson)
        i == IndexOf(users.data, "username", name)
    IN IF name = "" THEN Outcome("ValueError", f, 0)
       ELSE IF password = << >> THEN Outcome("ValueError", f, 0)
       ELSE IF users.raised # "none" THEN Outcome(users.raised, users.files, 0)
       ELSE IF i = 0 THEN Outcome("AuthError", users.files, 0)
       ELSE IF Sha256(password, users.data[i].salt) # users.data[i].hashed_password
       THEN Outcome("AuthError", users.files, 0)
       ELSE Outcome("none", users.files, users.data[i].user_id)

\* d[key] = value on a dict
Put(d, key, value) == [k \in DOMAIN d \cup { key } |-> IF k = key THEN value ELSE d[k]]

NoWallets == [c \in {} |-> Zero]

\* the session: _current_user_id, 0 for None
NoUser == 0

\* what buy and sell end with: the exception, the files and the tuple
\* (old_balance, new_balance, rate) they return
Traded(exc, f, old_balance, new_balance, rate) ==
    [raised |-> exc, files |-> f, old_balance |-> old_balance,
     new_balance |-> new_balance, rate |-> rate]
TradeFails(exc, f) == Traded(exc, f, Zero, Zero, Zero)

\* WalletApp.buy that saves the debit before it tests the funds
buy_save_first(f, user_id, currency_code, amount, t) ==
    LET code == normalize_currency(currency_code)
        r == get_rate(f, code, "USD", t)
        rate == r.answer.rate
        portfolios == read_list(r.files, PortfoliosJson)
        i == IndexOf(portfolios.data, "user_id", user_id)
        listed == IF i = 0
                  THEN Append(portfolios.data, [user_id |-> user_id, wallets |-> NoWallets])
                  ELSE portfolios.data
        at == IF i = 0 THEN Len(listed) ELSE i
        wallets == listed[at].wallets
        usd_cost == Mul(amount, rate)
        usd_wallet == IF "USD" \in DOMAIN wallets THEN wallets["USD"] ELSE BalanceDict(Zero)
        old_usd == usd_wallet.balance
        debited == Put(wallets, "USD", BalanceDict(Sub(old_usd, usd_cost)))
        old_balance == IF code \in DOMAIN debited THEN debited[code].balance ELSE Zero
        new_balance == Add(old_balance, amount)
        credited == Put(debited, code, BalanceDict(new_balance))
        saved == write_json(portfolios.files, PortfoliosJson,
                            DumpsList([listed EXCEPT ![at].wallets = credited]))
    IN IF user_id = NoUser THEN TradeFails("NotLoggedInError", f)
       ELSE IF ~IsCurrency(code) THEN TradeFails("CurrencyNotFoundError", f)
       ELSE IF LessEq(amount, Zero) THEN TradeFails("ValueError", f)
       ELSE IF r.answer.raised # "none" THEN TradeFails(r.answer.raised, r.files)
       ELSE IF portfolios.raised # "none" THEN TradeFails(portfolios.raised, portfolios.files)
       ELSE IF ~IsDict(usd_wallet) THEN TradeFails("AttributeError", portfolios.files)
       ELSE IF code \in DOMAIN debited /\ ~IsDict(debited[code])
       THEN TradeFails("AttributeError", portfolios.files)
       ELSE IF Less(old_usd, usd_cost) THEN TradeFails("InsufficientFundsError", saved)
       ELSE Traded("none", saved, old_balance, new_balance, rate)

\* WalletApp.buy for the session user_id; the username log_action looks up
\* before the call reads users.json, which exists whenever a user is logged in
buy(f, user_id, currency_code, amount, t) ==
    LET code == normalize_currency(currency_code)
        r == get_rate(f, code, "USD", t)
        rate == r.answer.rate
        portfolios == read_list(r.files, PortfoliosJson)
        i == IndexOf(portfolios.data, "user_id", user_id)
        listed == IF i = 0
                  THEN Append(portfolios.data, [user_id |-> user_id, wallets |-> NoWallets])
                  ELSE portfolios.data
        at == IF i = 0 THEN Len(listed) ELSE i
        wallets == listed[at].wallets
        usd_cost == Mul(amount, rate)
        usd_wallet == IF "USD" \in DOMAIN wallets THEN wallets["USD"] ELSE BalanceDict(Zero)
        old_usd == usd_wallet.balance
        debited == Put(wallets, "USD", BalanceDict(Sub(old_usd, usd_cost)))
        old_balance == IF code \in DOMAIN debited THEN debited[code].balance ELSE Zero
        new_balance == Add(old_balance, amount)
        credited == Put(debited, code, BalanceDict(new_balance))
    IN IF user_id = NoUser THEN TradeFails("NotLoggedInError", f)
       ELSE IF ~IsCurrency(code) THEN TradeFails("CurrencyNotFoundError", f)
       ELSE IF LessEq(amount, Zero) THEN TradeFails("ValueError", f)
       ELSE IF r.answer.raised # "none" THEN TradeFails(r.answer.raised, r.files)
       ELSE IF portfolios.raised # "none" THEN TradeFails(portfolios.raised, portfolios.files)
       ELSE IF ~IsDict(usd_wallet) THEN TradeFails("AttributeError", portfolios.files)
       ELSE IF Less(old_usd, usd_cost)
       THEN TradeFails("InsufficientFundsError", portfolios.files)
       ELSE IF code \in DOMAIN debited /\ ~IsDict(debited[code])
       THEN TradeFails("AttributeError", portfolios.files)
       ELSE Traded("none",
                   write_json(portfolios.files, PortfoliosJson,
                              DumpsList([listed EXCEPT ![at].wallets = credited])),
                   old_balance, new_balance, rate)

\* WalletApp.sell for the session user_id
sell(f, user_id, currency_code, amount, t) ==
    LET code == normalize_currency(currency_code)
        r == get_rate(f, code, "USD", t)
        rate == r.answer.rate
        portfolios == read_list(r.files, PortfoliosJson)
        i == IndexOf(portfolios.data, "user_id", user_id)
        wallets == portfolios.data[i].wallets
        old_balance == wallets[code].balance
        new_balance == Sub(old_balance, amount)
        debited == Put(wallets, code, BalanceDict(new_balance))
        usd_proceeds == Mul(amount, rate)
        usd_wallet == IF "USD" \in DOMAIN debited THEN debited["USD"] ELSE BalanceDict(Zero)
        new_usd == Add(usd_wallet.balance, usd_proceeds)
        credited == Put(debited, "USD", BalanceDict(new_usd))
    IN IF user_id = NoUser THEN TradeFails("NotLoggedInError", f)
       ELSE IF ~IsCurrency(code) THEN TradeFails("CurrencyNotFoundError", f)
       ELSE IF LessEq(amount, Zero) THEN TradeFails("ValueError", f)
       ELSE IF r.answer.raised # "none" THEN TradeFails(r.answer.raised, r.files)
       ELSE IF portfolios.raised # "none" THEN TradeFails(portfolios.raised, portfolios.files)
       ELSE IF i = 0 THEN TradeFails("ValueError", portfolios.files)
       ELSE IF code \notin DOMAIN wallets THEN TradeFails("ValueError", portfolios.files)
       ELSE IF ~IsDict(wallets[code]) THEN TradeFails("AttributeError", portfolios.files)
       ELSE IF Less(old_balance, amount)
       THEN TradeFails("InsufficientFundsError", portfolios.files)
       ELSE IF ~IsDict(usd_wallet) THEN TradeFails("AttributeError", portfolios.files)
       ELSE Traded("none",
                   write_json(portfolios.files, PortfoliosJson,
                              DumpsList([portfolios.data EXCEPT ![i].wallets = credited])),
                   old_balance, new_balance, rate)

\* the order in which show_portfolio walks the wallets
WalletOrder == << "USD", "BTC", "EUR" >>

\* the loop `for code, wallet in portfolio.wallets.items()` of show_portfolio
\* from the k-th wallet on: the first lookup that raises ends it
RECURSIVE Valuation(_, _, _, _, _)
Valuation(f, wallets, base, t, k) ==
    IF k > Len(WalletOrder) THEN Outcome("none", f, 0)
    ELSE IF WalletOrder[k] \notin DOMAIN wallets THEN Valuation(f, wallets, base, t, k + 1)
    ELSE IF get_rate(f, WalletOrder[k], base, t).answer.raised # "none"
    THEN Outcome(get_rate(f, WalletOrder[k], base, t).answer.raised,
                 get_rate(f, WalletOrder[k], base, t).files, 0)
    ELSE Valuation(get_rate(f, WalletOrder[k], base, t).files, wallets, base, t, k + 1)

\* WalletApp.show_portfolio for the session user_id
show_portfolio(f, user_id, base_currency, t) ==
    LET base == normalize_currency(base_currency)
        users == read_list(f, UsersJson)
        portfolios == read_list(users.files, PortfoliosJson)
        i == IndexOf(portfolios.data, "user_id", user_id)
        wallets == IF i = 0 THEN NoWallets ELSE portfolios.data[i].wallets
    IN IF user_id = NoUser THEN Outcome("NotLoggedInError", f, 0)
       ELSE IF ~IsCurrency(base) THEN Outcome("CurrencyNotFoundError", f, 0)
       ELSE IF users.raised # "none" THEN Outcome(users.raised, users.files, 0)
       ELSE IF IndexOf(users.data, "user_id", user_id) = 0
       THEN Outcome("AuthError", users.files, 0)
       ELSE IF portfolios.raised # "none" THEN Outcome(portfolios.raised, portfolios.files, 0)
       ELSE IF \E c \in DOMAIN wallets : ~IsDict(wallets[c])
       THEN Outcome("TypeError", portfolios.files, 0)
       ELSE IF \E c \in DOMAIN wallets : Less(wallets[c].balance, Zero)
       THEN Outcome("ValueError", portfolios.files, 0)
       ELSE Valuation(portfolios.files, wallets, base, t, 1)

\* the files of the data directory the wallet runs use
DataFiles == FileNames \cup { UsersJson, PortfoliosJson }

\* the list a users.json or portfolios.json holds
ItemsOf(f, name) == IF f[name].kind = "list" THEN f[name].items ELSE << >>

\* a data directory left by earlier runs: one user whose wallets are stored
\* as Portfolio.to_dict and buy and sell write them
SeededUsers ==
    << [user_id |-> 1, username |-> "alice",
        hashed_password |-> Sha256(<< 1, 2, 3, 4 >>, "s1"), salt |-> "s1"] >>
SeededPortfolios ==
    << [user_id |-> 1, wallets |-> [c \in { "USD" } |-> BalanceDict(Frac(2, 1))]] >>

\* what the wallet is asked to trade
TradeCodes == { "USD", "btc", "XXX" }
Amounts == { Zero, One, NaN }

\* the prices CoinGecko may answer for bitcoin
Quotes == { Frac(2, 1), Frac(0 - 1, 1) }

\* every stored balance is within the range the runs follow
RECURSIVE WithinRange(_)
WithinRange(items) ==
    IF items = << >> THEN TRUE
    ELSE /\ \A c \in DOMAIN Head(items).wallets :
               LET w == Head(items).wallets[c]
                   b == IF IsDict(w) THEN w.balance ELSE w
               IN IsNaN(b) \/ (b.n <= MaxBalance * b.d /\ 0 - b.n <= MaxBalance * b.d)
         /\ WithinRange(Tail(items))

InitWallet ==
    /\ files \in { [n \in DataFiles |-> Missing],
                   [n \in DataFiles |->
                       IF n = UsersJson THEN DumpsList(SeededUsers)
                       ELSE IF n = PortfoliosJson THEN DumpsList(SeededPortfolios)
                       ELSE Missing] }
    /\ now = 0
    /\ writes = {}
    /\ last = [op |-> "init"]
    /\ pre = Missing
    /\ pc = NoThreads
    /\ snap = NoThreads
    /\ handle = NoThreads
    /\ seen = Missing
    /\ sched = NoScheduler
    /\ app = [_current_user_id |-> NoUser]

\* what every call of the wallet records: the call, the session it ran in,
\* its outcome, and the users and portfolios stored when it started
Called(op, args, raised, result) ==
    [op |-> op, args |-> args, raised |-> raised, result |-> result,
     user |-> app._current_user_id,
     users |-> ItemsOf(files, UsersJson),
     portfolios |-> ItemsOf(files, PortfoliosJson)]

NoArgs == [none |-> TRUE]

\* the names typed bound the users a run can store
Register ==
    /\ \E username \in TypedNames, password \in TypedPasswords, salt \in Salts :
       \E r \in { register(files, username, password, salt) } :
          /\ files' = r.files
          /\ last' = Called("register", [username |-> username, password |-> password],
                            r.raised, r.value)
          /\ pre' = files[RatesJson]
          /\ UNCHANGED <<now, writes, pc, snap, handle, seen, sched, app>>

Login ==
    \E username \in TypedNames, password \in TypedPasswords :
    \E r \in { login(files, username, password) } :
       /\ files' = r.files
       /\ app' = IF r.raised = "none" THEN [app EXCEPT !._current_user_id = r.value]
                 ELSE app
       /\ last' = Called("login", [username |-> username, password |-> password],
                         r.raised, r.value)
       /\ pre' = files[RatesJson]
       /\ UNCHANGED <<now, writes, pc, snap, handle, seen, sched>>

Logout ==
    /\ app' = [app EXCEPT !._current_user_id = NoUser]
    /\ last' = Called("logout", NoArgs, "none", 0)
    /\ pre' = files[RatesJson]
    /\ UNCHANGED <<files, now, writes, pc, snap, handle, seen, sched>>

Buy ==
    /\ WithinRange(ItemsOf(files, PortfoliosJson))
    /\ \E code \in TradeCodes, amount \in Amounts :
       \E r \in { buy(files, app._current_user_id, code, amount, now) } :
          /\ files' = r.files
          /\ last' = Called("buy", [code |-> normalize_currency(code), amount |-> amount,
                                    quote |-> get_rate(files, code, "USD", now).answer],
                            r.raised, [old_balance |-> r.old_balance,
                                       new_balance |-> r.new_balance, rate |-> r.rate])
          /\ pre' = files[RatesJson]
          /\ UNCHANGED <<now, writes, pc, snap, handle, seen, sched, app>>

Sell ==
    /\ WithinRange(ItemsOf(files, PortfoliosJson))
    /\ \E code \in TradeCodes, amount \in Amounts :
       \E r \in { sell(files, app._current_user_id, code, amount, now) } :
          /\ files' = r.files
          /\ last' = Called("sell", [code |-> normalize_currency(code), amount |-> amount,
                                     quote |-> get_rate(files, code, "USD", now).answer],
                            r.raised, [old_balance |-> r.old_balance,
                                       new_balance |-> r.new_balance, rate |-> r.rate])
          /\ pre' = files[RatesJson]
          /\ UNCHANGED <<now, writes, pc, snap, handle, seen, sched, app>>

ShowPortfolio ==
    \E base \in { "USD", "XXX" } :
    \E r \in { show_portfolio(files, app._current_user_id, base, now) } :
       /\ files' = r.files
       /\ last' = Called("show_portfolio", [base |-> base], r.raised, 0)
       /\ pre' = files[RatesJson]
       /\ UNCHANGED <<now, writes, pc, snap, handle, seen, sched, app>>

\* update-rates --source coingecko: the refresh of the cache the trades read;
\* the fetch takes a second
UpdateRates ==
    /\ HistoryLen(files) <= MaxHistory
    /\ now < MaxTime
    /\ \E q \in Quotes :
       \E r \in { run_update(files, "coingecko", ParserConfig(None),
                             [c \in ClientNames |->
                                 IF c = "coingecko" THEN Ok([k \in { "bitcoin" } |-> Num(q)])
                                 ELSE NetworkError],
                             now, [c \in ClientNames |-> now + 1]) } :
          /\ files' = r.files
          /\ now' = now + 1
          /\ last' = Called("update-rates", NoArgs, r.raised, 0)
          /\ pre' = files[RatesJson]
          /\ UNCHANGED <<writes, pc, snap, handle, seen, sched, app>>

NextWallet ==
    \/ Register
    \/ Login
    \/ Logout
    \/ Buy
    \/ Sell
    \/ ShowPortfolio
    \/ UpdateRates

SpecWallet == InitWallet /\ [][NextWallet]_vars

\* the portfolios stored now, and the wallets of a user in a list of portfolios
StoredPortfolios == ItemsOf(files, PortfoliosJson)
StoredUsers == ItemsOf(files, UsersJson)
WalletsOf(items, user_id) ==
    IF IndexOf(items, "user_id", user_id) = 0 THEN NoWallets
    ELSE items[IndexOf(items, "user_id", user_id)].wallets
\* the balance a stored wallet holds, in either of its two formats
BalanceIn(w) == IF IsDict(w) THEN w.balance ELSE w
BalanceOf(items, user_id, code) ==
    IF code \in DOMAIN WalletsOf(items, user_id)
    THEN BalanceIn(WalletsOf(items, user_id)[code]) ELSE Zero

\* the wallets register has stored for a user who has not traded yet
AsRegistered == [c \in { "USD" } |-> INITIAL_USD_BALANCE]

IsTrade == last.op \in { "buy", "sell" }

(* C32: a user who has registered and logged in and has not traded yet can  *)
(* buy: when a rate r > 0 of the currency is cached, the amount a is        *)
(* positive and a * r is not above the initial USD balance, buy succeeds,   *)
(* the user's USD balance goes down by a * r and the balance of the         *)
(* currency is a.                                                            *)
NewUserCanBuy ==
    (/\ last.op = "buy"
     /\ last.user # NoUser
     /\ WalletsOf(last.portfolios, last.user) = AsRegistered
     /\ last.args.code # "USD"
     /\ last.args.quote.raised = "none"
     /\ Less(Zero, last.args.quote.rate)
     /\ Less(Zero, last.args.amount)
     /\ LessEq(Mul(last.args.amount, last.args.quote.rate), INITIAL_USD_BALANCE)) =>
        /\ last.raised = "none"
        /\ BalanceOf(StoredPortfolios, last.user, "USD")
             = Sub(INITIAL_USD_BALANCE, Mul(last.args.amount, last.args.quote.rate))
        /\ BalanceOf(StoredPortfolios, last.user, last.args.code) = last.args.amount

(* C33: after any sequence of register, login, logout, buy, sell and rate   *)
(* refreshes every wallet balance stored in portfolios.json is >= 0.        *)
BalancesAreNonNegative ==
    \A i \in DOMAIN StoredPortfolios :
        \A c \in DOMAIN StoredPortfolios[i].wallets :
            LessEq(Zero, BalanceIn(StoredPortfolios[i].wallets[c]))

(* C34: a buy or sell that raises, whatever the exception, leaves the       *)
(* portfolios stored for every user as they were; and with no user logged   *)
(* in, buy, sell and show_portfolio raise NotLoggedInError.                 *)
FailedTradeChangesNothing ==
    /\ (IsTrade /\ last.raised # "none") => StoredPortfolios = last.portfolios
    /\ (last.op \in { "buy", "sell", "show_portfolio" } /\ last.user = NoUser) =>
           last.raised = "NotLoggedInError"

\* a buy of a logged-in user with a stored portfolio was refused for lack of
\* funds
FailedTradeChangesNothingWitness ==
    /\ last.op = "buy"
    /\ last.raised = "InsufficientFundsError"
    /\ last.user # NoUser
    /\ WalletsOf(last.portfolios, last.user) # NoWallets

====
